---- MODULE Spec2Model ----
(***************************************************************************)
(* A model of the DEFLATE decoder puff() of CompressedFileEditor           *)
(* (src/puff.c), of the Adler-32 accumulator it feeds (src/utils.c) and of *)
(* the two-pass drivers that call it (src/zlib_dump.c, src/gzip_dump.c).   *)
(*                                                                         *)
(* The decoder is a state machine over struct state: one action per step   *)
(* of the block loop of puff(), per code-length symbol of dynamic() and    *)
(* per literal/length symbol of codes().  bits(), decode() and construct() *)
(* are operators computed as the C code computes them.  C arrays are       *)
(* sequences: the C element a[i] is a[i + 1] here.                         *)
(***************************************************************************)
EXTENDS Integers, Sequences, FiniteSets, TLC

(***************************************************************************)
(* Program constants (src/puff.c:91-95).                                   *)
(***************************************************************************)
MAXBITS == 15
MAXLCODES == 286
MAXDCODES == 30
FIXLCODES == 288

MAXCODES == MAXLCODES + MAXDCODES

(* Size base and extra bits for length codes 257..285, offset base and     *)
(* extra bits for distance codes 0..29 (src/puff.c:660-674).               *)
lens ==
  << 3, 4, 5, 6, 7, 8, 9, 10, 11, 13, 15, 17, 19, 23, 27, 31,
     35, 43, 51, 59, 67, 83, 99, 115, 131, 163, 195, 227, 258 >>

lext ==
  << 0, 0, 0, 0, 0, 0, 0, 0, 1, 1, 1, 1, 2, 2, 2, 2,
     3, 3, 3, 3, 4, 4, 4, 4, 5, 5, 5, 5, 0 >>

dists ==
  << 1, 2, 3, 4, 5, 7, 9, 13, 17, 25, 33, 49, 65, 97, 129, 193,
     257, 385, 513, 769, 1025, 1537, 2049, 3073, 4097, 6145,
     8193, 12289, 16385, 24577 >>

dext ==
  << 0, 0, 0, 0, 1, 1, 2, 2, 3, 3, 4, 4, 5, 5, 6, 6,
     7, 7, 8, 8, 9, 9, 10, 10, 11, 11,
     12, 12, 13, 13 >>

(* Permutation of the code length codes (src/puff.c:1011-1012).            *)
order ==
  << 16, 17, 18, 0, 8, 7, 9, 6, 10, 5, 11, 4, 12, 3, 13, 2, 14, 1, 15 >>

(***************************************************************************)
(* C integer operators on non-negative values.                             *)
(***************************************************************************)
Pow2(n) == 2 ^ n

ShiftL(a, n) == a * Pow2(n)

ShiftR(a, n) == a \div Pow2(n)

RECURSIVE BitOr(_, _)
BitOr(a, b) ==
  IF a = 0 THEN b
  ELSE IF b = 0 THEN a
  ELSE (IF a % 2 = 1 \/ b % 2 = 1 THEN 1 ELSE 0) + 2 * BitOr(a \div 2, b \div 2)

RECURSIVE BitXor(_, _)
BitXor(a, b) ==
  IF a = 0 THEN b
  ELSE IF b = 0 THEN a
  ELSE (IF a % 2 = b % 2 THEN 0 ELSE 1) + 2 * BitXor(a \div 2, b \div 2)

Min(a, b) == IF a < b THEN a ELSE b

(***************************************************************************)
(* State.  struct state (src/puff.c:98-113) is the variables source,       *)
(* inlen, incnt, bitbuf, bitcnt, dest, out, outlen, outcnt; the locals of  *)
(* puff() and dynamic() that live across steps are variables too.          *)
(***************************************************************************)
VARIABLES
  source,       \* s.in: the input bytes, a sequence of 0..255
  inlen,        \* s.inlen = *sourcelen on entry
  incnt,        \* s.incnt: bytes read so far
  bitbuf,       \* s.bitbuf
  bitcnt,       \* s.bitcnt
  dest,         \* "NIL" (scan only) or "BUF" (an output buffer is given)
  outlen,       \* s.outlen = *destlen on entry: the capacity of the buffer
  out,          \* the bytes stored through s.out, in order of index
  outcnt,       \* s.outcnt
  pc,           \* the position of control
  last,         \* puff(): BFINAL of the current block
  type,         \* puff(): BTYPE of the current block
  err,          \* puff(): the return value being built
  block_index,  \* puff(): number of block headers read
  block_start_bit_position, \* puff()
  trace,        \* the block records emitted so far
  lencode,      \* the literal/length (or code length) table in use
  distcode,     \* the distance table in use
  lengths,      \* dynamic(): descriptor code lengths
  nlen,         \* dynamic(): number of literal/length code lengths
  ndist,        \* dynamic(): number of distance code lengths
  index,        \* dynamic(): index into lengths
  copy,         \* codes(): len and dist of the copy of lines 745-756
  adler32_checksum, \* the global accumulator of src/utils.c
  ret,          \* what puff() returned
  destlen,      \* *destlen after the call
  sourcelen,    \* *sourcelen after the call
  caller,       \* "puff": a direct call; "zlib_dump", "gzip_dump": a driver
  pass,         \* 1: the first call of the driver, 2: its second call
  scan,         \* the driver's record of the first call
  checksum_calculated, \* the driver's CHECKSUM_CALCULATED bytes
  hsym,         \* table harness: the symbol whose code is fed
  hpos,         \* table harness: the bit position where its code starts
  hres          \* table harness: what decode() returned

vars ==
  << source, inlen, incnt, bitbuf, bitcnt, dest, outlen, out, outcnt, pc,
     last, type, err, block_index, block_start_bit_position, trace,
     lencode, distcode, lengths, nlen, ndist, index, copy,
     adler32_checksum, ret, destlen, sourcelen, caller, pass, scan,
     checksum_calculated, hsym, hpos, hres >>

(* The bit reader part of struct state, as the argument of bits() and      *)
(* decode().                                                               *)
S == [incnt |-> incnt, bitbuf |-> bitbuf, bitcnt |-> bitcnt]

(***************************************************************************)
(* bits() (src/puff.c:126-145).  jmp is TRUE when the call leaves by       *)
(* longjmp(s->env, 1); the reader fields are those at that moment.         *)
(***************************************************************************)
RECURSIVE bits_load(_, _)
bits_load(l, need) ==
  IF l.bitcnt < need
    THEN IF l.incnt = inlen
           THEN [l EXCEPT !.jmp = TRUE]
           ELSE bits_load([l EXCEPT
                   !.val = BitOr(@, ShiftL(source[l.incnt + 1], l.bitcnt)),
                   !.incnt = @ + 1,
                   !.bitcnt = @ + 8], need)
    ELSE l

(* A variant that does not zero the bits above the need bits asked for.    *)
bits_unmasked(s, need) ==
  LET l == bits_load([jmp |-> FALSE, val |-> s.bitbuf, incnt |-> s.incnt,
                      bitcnt |-> s.bitcnt], need)
  IN IF l.jmp
       THEN [jmp |-> TRUE, val |-> 0, incnt |-> l.incnt,
             bitbuf |-> s.bitbuf, bitcnt |-> l.bitcnt]
       ELSE [jmp |-> FALSE, val |-> l.val, incnt |-> l.incnt,
             bitbuf |-> ShiftR(l.val, need), bitcnt |-> l.bitcnt - need]

bits(s, need) ==
  LET l == bits_load([jmp |-> FALSE, val |-> s.bitbuf, incnt |-> s.incnt,
                      bitcnt |-> s.bitcnt], need)
  IN IF l.jmp
       THEN [jmp |-> TRUE, val |-> 0, incnt |-> l.incnt,
             bitbuf |-> s.bitbuf, bitcnt |-> l.bitcnt]
       ELSE [jmp |-> FALSE, val |-> l.val % Pow2(need), incnt |-> l.incnt,
             bitbuf |-> ShiftR(l.val, need), bitcnt |-> l.bitcnt - need]

(* get_input_bit_position() (src/puff.c:147-152).                          *)
get_input_bit_position(s) == ShiftL(s.incnt, 3) - s.bitcnt

(***************************************************************************)
(* decode(), the fast version compiled by default (src/puff.c:334-379).    *)
(* h is [count, symbol]: count[len + 1] is h->count[len], symbol[i + 1] is *)
(* h->symbol[i].  sym is the symbol, or -10 when the code ran out.         *)
(***************************************************************************)
(* A variant that leaves the count of buffered bits as it was.              *)
decode_bitcnt_kept(cnt, len) == cnt

(* A variant that keeps the difference as it is.                           *)
decode_bitcnt_unmasked(cnt, len) == cnt - len

(* Line 357: s->bitcnt = (s->bitcnt - len) & 7.                            *)
decode_bitcnt(cnt, len) == (cnt - len) % 8

RECURSIVE decode_loop(_, _, _)
decode_loop(s, h, d) ==
  IF d.left > 0
    THEN LET code == BitOr(d.code, d.bitbuf % 2)
             bb == ShiftR(d.bitbuf, 1)
             count == h.count[d.len + 1]
         IN IF code - count < d.first
              THEN [jmp |-> FALSE,
                    sym |-> h.symbol[d.index + (code - d.first) + 1],
                    incnt |-> d.incnt, bitbuf |-> bb,
                    bitcnt |-> decode_bitcnt(s.bitcnt, d.len)]
              ELSE decode_loop(s, h,
                     [code |-> ShiftL(code, 1),
                      first |-> ShiftL(d.first + count, 1),
                      index |-> d.index + count,
                      len |-> d.len + 1,
                      bitbuf |-> bb,
                      left |-> d.left - 1,
                      incnt |-> d.incnt])
    ELSE LET left == (MAXBITS + 1) - d.len
         IN IF left = 0
              THEN [jmp |-> FALSE, sym |-> -10, incnt |-> d.incnt,
                    bitbuf |-> s.bitbuf, bitcnt |-> s.bitcnt]
              ELSE IF d.incnt = inlen
                THEN [jmp |-> TRUE, sym |-> 0, incnt |-> d.incnt,
                      bitbuf |-> s.bitbuf, bitcnt |-> s.bitcnt]
                ELSE decode_loop(s, h,
                       [d EXCEPT !.bitbuf = source[d.incnt + 1],
                                 !.incnt = @ + 1,
                                 !.left = Min(left, 8)])

decode(s, h) ==
  decode_loop(s, h, [code |-> 0, first |-> 0, index |-> 0, len |-> 1,
                     bitbuf |-> s.bitbuf, left |-> s.bitcnt,
                     incnt |-> s.incnt])


(***************************************************************************)
(* construct() (src/puff.c:475-576).  length[symbol + 1] is the C          *)
(* length[symbol].  The result is the return value and the table left in   *)
(* *h: on the two early returns h->symbol is not written and keeps what h  *)
(* held.  The calls of get_encoded_val_from_huffman_table() in lines       *)
(* 538-568 only print and restore h->count[0]; they change nothing.        *)
(***************************************************************************)
construct_count(length, n) ==
  [len \in 1..(MAXBITS + 1) |->
     Cardinality({symbol \in 1..n : length[symbol] = len - 1})]

(* A variant that does not double left for each further bit.               *)
RECURSIVE construct_left_undoubled(_, _, _)
construct_left_undoubled(count, len, left) ==
  IF len > MAXBITS THEN left
  ELSE LET l == left - count[len + 1]
       IN IF l < 0 THEN l ELSE construct_left_undoubled(count, len + 1, l)

(* Lines 510-518: the value of left when the loop is left, negative at the *)
(* first length that over-subscribes.                                      *)
RECURSIVE construct_left(_, _, _)
construct_left(count, len, left) ==
  IF len > MAXBITS THEN left
  ELSE LET l == ShiftL(left, 1) - count[len + 1]
       IN IF l < 0 THEN l ELSE construct_left(count, len + 1, l)

(* Lines 521-523: offs[len], the offset of the first symbol of length len. *)
RECURSIVE construct_offs_at(_, _)
construct_offs_at(count, len) ==
  IF len = 1 THEN 0
  ELSE construct_offs_at(count, len - 1) + count[len]

construct_offs(count) == [len \in 1..MAXBITS |-> construct_offs_at(count, len)]

(* Lines 529-531: put the symbols in the table, sorted by length and by    *)
(* symbol order within each length.  p is [offs, sym]; the loop over       *)
(* symbol = lo .. hi - 1 is split in halves to keep the evaluation         *)
(* shallow; the test on q makes the first half be evaluated first.         *)
RECURSIVE construct_put(_, _, _, _)
construct_put(length, lo, hi, p) ==
  IF lo >= hi THEN p
  ELSE IF hi = lo + 1
    THEN LET len == length[lo + 1]
         IN IF len # 0
              THEN [offs |-> [p.offs EXCEPT ![len] = @ + 1],
                    sym |-> [p.sym EXCEPT ![p.offs[len] + 1] = lo]]
              ELSE p
    ELSE LET mid == (lo + hi) \div 2
             q == construct_put(length, lo, mid, p)
         IN IF Len(q.sym) >= 0 THEN construct_put(length, mid, hi, q) ELSE q

construct(h, length, n) ==
  LET count == construct_count(length, n)
      encoded_symbol_num == n - count[1]
      left == construct_left(count, 1, 1)
  IN IF encoded_symbol_num = 0
       THEN [ret |-> 0, count |-> count, symbol |-> h.symbol]
       ELSE IF left < 0
         THEN [ret |-> left, count |-> count, symbol |-> h.symbol]
         ELSE [ret |-> left, count |-> count,
               symbol |-> construct_put(length, 0, n,
                              [offs |-> construct_offs(count),
                               sym |-> [i \in 1..encoded_symbol_num |-> 0]]
                            ).sym]

(* A struct huffman whose arrays hold nothing yet.                         *)
NoTable == [count |-> [len \in 1..(MAXBITS + 1) |-> 0], symbol |-> << >>]

Table(c) == [count |-> c.count, symbol |-> c.symbol]

(***************************************************************************)
(* The helpers that recover a symbol's code from a table                   *)
(* (src/puff.c:383-441).  Only the filled part of h->symbol is modelled:   *)
(* a symbol that has a code is found there before anything else is read.   *)
(***************************************************************************)
get_symbol_index_from_huffman_table(h, symbol) ==
  LET found == {i \in 1..Len(h.symbol) : h.symbol[i] = symbol}
  IN IF found = {} THEN -1
     ELSE (CHOOSE i \in found : \A j \in found : i <= j) - 1

RECURSIVE symbol_length_from(_, _, _, _)
symbol_length_from(h, symbol_index, j, len_count) ==
  IF j > MAXBITS THEN 0
  ELSE IF len_count + h.count[j + 1] > symbol_index THEN j
  ELSE symbol_length_from(h, symbol_index, j + 1, len_count + h.count[j + 1])

get_symbol_length_from_huffman_table(h, symbol) ==
  LET symbol_index == get_symbol_index_from_huffman_table(h, symbol)
  IN IF symbol_index < 0 THEN 0
     ELSE symbol_length_from(h, symbol_index, 1, 0)

(* A value stored in a short.                                              *)
Short(v) == ((v + 32768) % 65536) - 32768

(* Lines 432-436 with h->count[0] set to 0: offs[i] and next_code[i].      *)
RECURSIVE encoded_offs(_, _)
encoded_offs(h, i) ==
  IF i <= 1 THEN 0 ELSE Short(encoded_offs(h, i - 1) + h.count[i])

(* A variant that does not double the code from one length to the next.   *)
RECURSIVE encoded_next_code_unshifted(_, _)
encoded_next_code_unshifted(h, i) ==
  IF i = 0 THEN 0
  ELSE Short(encoded_next_code_unshifted(h, i - 1)
               + (IF i = 1 THEN 0 ELSE h.count[i]))

RECURSIVE encoded_next_code(_, _)
encoded_next_code(h, i) ==
  IF i = 0 THEN 0
  ELSE Short(ShiftL(encoded_next_code(h, i - 1)
                      + (IF i = 1 THEN 0 ELSE h.count[i]), 1))

get_encoded_val_from_huffman_table(h, symbol) ==
  LET symbol_index == get_symbol_index_from_huffman_table(h, symbol)
      symbol_len == get_symbol_length_from_huffman_table(h, symbol)
  IN IF symbol_index < 0 THEN -1
     ELSE IF symbol_len = 0 THEN -1
     ELSE encoded_next_code(h, symbol_len)
            + (symbol_index - encoded_offs(h, symbol_len))

(***************************************************************************)
(* The fixed tables built by fixed() on its first call                     *)
(* (src/puff.c:869-901).                                                   *)
(***************************************************************************)
fixed_lengths ==
  [symbol \in 1..FIXLCODES |->
     IF symbol - 1 < 144 THEN 8
     ELSE IF symbol - 1 < 256 THEN 9
     ELSE IF symbol - 1 < 280 THEN 7
     ELSE 8]

fixed_lencode == Table(construct(NoTable, fixed_lengths, FIXLCODES))

fixed_distcode ==
  Table(construct(NoTable, [symbol \in 1..MAXDCODES |-> 5], MAXDCODES))

(***************************************************************************)
(* adler32() (src/utils.c:255-273): feed one byte to the accumulator.  An  *)
(* unsigned int of 32 bits is the pair << high 16 bits, low 16 bits >>.    *)
(***************************************************************************)
Word32(hi, lo) == << hi, lo >>

adler32_low_only(checksum, data_val) ==
  Word32(checksum[1], (checksum[2] + data_val) % 65521)

adler32(checksum, data_val) ==
  LET base == 65521
      upper_in == checksum[1] % 65536
      lower_in == checksum[2] % 65536
      lower_sum == lower_in + data_val
      lower_word == IF lower_sum >= base THEN lower_sum - base ELSE lower_sum
      upper_sum == upper_in + lower_word
      upper_word == IF upper_sum >= base THEN upper_sum - base ELSE upper_sum
  IN Word32(upper_word % 65536, lower_word)

(***************************************************************************)
(* stored() (src/puff.c:176-267).  ret is the value returned; LEN and NLEN *)
(* are the values put in the trace by lines 223-235, NoField when the      *)
(* function returns before them.                                           *)
(***************************************************************************)
NoField == -1

(* Lines 241-256: the copy loop.  len is its value before while (len--);  *)
(* the iterations lo .. hi - 1 are split in halves to keep the evaluation  *)
(* shallow, and done is TRUE once the loop has returned 1.                 *)
RECURSIVE stored_copy(_, _, _, _)
stored_copy(len, lo, hi, c) ==
  IF lo >= hi \/ c.done THEN c
  ELSE IF hi = lo + 1
    THEN LET data_val == source[c.incnt + 1]
             left == len - 1 - lo
         IN IF dest # "NIL"
              THEN IF c.outcnt + left > outlen
                     THEN [c EXCEPT !.ret = 1, !.done = TRUE, !.incnt = @ + 1]
                     ELSE [c EXCEPT !.incnt = @ + 1,
                                    !.adler = adler32(@, data_val),
                                    !.out = Append(@, data_val),
                                    !.outcnt = @ + 1]
              ELSE [c EXCEPT !.incnt = @ + 1, !.outcnt = @ + 1]
    ELSE LET mid == (lo + hi) \div 2
             q == stored_copy(len, lo, mid, c)
         IN IF q.outcnt >= 0 THEN stored_copy(len, mid, hi, q) ELSE q

(* A variant that takes the first byte as the more significant one.        *)
stored_length_big_endian(b0, b1) == BitOr(b1, ShiftL(b0, 8))

(* Lines 207-210: a 16-bit length from two input bytes, the less           *)
(* significant first.                                                      *)
stored_length(b0, b1) == BitOr(b0, ShiftL(b1, 8))

(* stored() (src/puff.c:176-267).                                          *)
stored(s) ==
  LET c0 == [ret |-> 0, incnt |-> s.incnt, bitbuf |-> 0, bitcnt |-> 0,
             out |-> out, outcnt |-> outcnt, adler |-> adler32_checksum,
             LEN |-> NoField, NLEN |-> NoField, done |-> FALSE]
  IN IF s.incnt + 4 > inlen
       THEN [c0 EXCEPT !.ret = 2]
       ELSE LET len == stored_length(source[s.incnt + 1],
                                     source[s.incnt + 2])
                nl == stored_length(source[s.incnt + 3],
                                    source[s.incnt + 4])
                c4 == [c0 EXCEPT !.incnt = @ + 4]
            IN IF len + nl # 65535
                 THEN [c4 EXCEPT !.ret = -2]
                 ELSE IF c4.incnt + len > inlen
                   THEN [c4 EXCEPT !.ret = 2]
                   ELSE stored_copy(len, 0, len,
                          [c4 EXCEPT !.LEN = len, !.NLEN = nl])

(***************************************************************************)
(* One iteration of the do-while loop of codes() (src/puff.c:684-761).     *)
(* kind is "jmp" when bits() or decode() leaves by longjmp, "ret" when     *)
(* codes() returns ret, "next" when the loop goes round again.             *)
(***************************************************************************)
(* Lines 745-756: copy len bytes from dist bytes back, one at a time,      *)
(* feeding each to the checksum.  The len iterations are split in halves   *)
(* to keep the evaluation shallow.                                         *)
NoCopy == [len |-> 0, dist |-> 0]

(* A variant that does not feed the copied byte to the checksum.           *)
codes_copy_byte_unfed(dist, c) ==
  [c EXCEPT !.out = Append(@, c.out[c.outcnt - dist + 1]),
            !.outcnt = @ + 1]

(* Lines 746-755: one iteration of while (len--).                          *)
codes_copy_byte(dist, c) ==
  LET o == Append(c.out, c.out[c.outcnt - dist + 1])
  IN [c EXCEPT !.out = o,
               !.adler = adler32(@, o[c.outcnt - dist + 1]),
               !.outcnt = @ + 1]

(* A variant that copies as one block what the buffer held before the      *)
(* copy: a byte past the end of that is not one just written.              *)
codes_copy_block(len, dist, c) ==
  [c EXCEPT !.out = @ \o [i \in 1..len |->
                            IF i <= dist THEN c.out[c.outcnt - dist + i]
                            ELSE 0],
            !.outcnt = @ + len]

RECURSIVE codes_copy(_, _, _)
codes_copy(len, dist, c) ==
  IF len = 0 THEN c
  ELSE IF len = 1 THEN codes_copy_byte(dist, c)
  ELSE LET q == codes_copy(len \div 2, dist, c)
       IN IF q.outcnt >= 0 THEN codes_copy(len - len \div 2, dist, q)
          ELSE q

(* A variant that also refuses a copy that fills the buffer exactly.       *)
codes_no_space_strict(cnt, len) == cnt + len >= outlen

(* Line 743: the copy would pass the end of the buffer.                    *)
codes_no_space(cnt, len) == cnt + len > outlen

(* A variant that also refuses the distance that reaches the first byte.   *)
codes_too_far_or_first(dist, cnt) == dist >= cnt

(* Line 735: the distance reaches before the first byte of the output.     *)
codes_too_far(dist, cnt) == dist > cnt

codes_reader(c, r) ==
  [c EXCEPT !.incnt = r.incnt, !.bitbuf = r.bitbuf, !.bitcnt = r.bitcnt]

codes_length(c0, symbol) ==
  LET e1 == bits(c0, lext[symbol + 1])
      c1 == codes_reader(c0, e1)
      len == lens[symbol + 1] + e1.val
      d2 == decode(c1, distcode)
      c2 == codes_reader(c1, d2)
      e2 == IF d2.jmp \/ d2.sym < 0 THEN d2 ELSE bits(c2, dext[d2.sym + 1])
      c3 == codes_reader(c2, e2)
      dist == dists[d2.sym + 1] + e2.val
  IN IF e1.jmp THEN [c1 EXCEPT !.kind = "jmp"]
     ELSE IF d2.jmp THEN [c2 EXCEPT !.kind = "jmp"]
     ELSE IF d2.sym < 0 THEN [c2 EXCEPT !.kind = "ret", !.ret = d2.sym]
     ELSE IF e2.jmp THEN [c3 EXCEPT !.kind = "jmp"]
     ELSE IF codes_too_far(dist, c3.outcnt)
       THEN [c3 EXCEPT !.kind = "ret", !.ret = -11]
     ELSE IF dest # "NIL"
       THEN IF codes_no_space(c3.outcnt, len)
              THEN [c3 EXCEPT !.kind = "ret", !.ret = 1]
              ELSE [codes_copy(len, dist, c3) EXCEPT
                      !.copy = [len |-> len, dist |-> dist]]
       ELSE [c3 EXCEPT !.outcnt = @ + len]

codes_step(s) ==
  LET d1 == decode(s, lencode)
      c0 == [kind |-> "next", ret |-> 0, incnt |-> d1.incnt,
             bitbuf |-> d1.bitbuf, bitcnt |-> d1.bitcnt,
             out |-> out, outcnt |-> outcnt, adler |-> adler32_checksum,
             copy |-> NoCopy]
  IN IF d1.jmp THEN [c0 EXCEPT !.kind = "jmp"]
     ELSE IF d1.sym < 0 THEN [c0 EXCEPT !.kind = "ret", !.ret = d1.sym]
     ELSE IF d1.sym < 256
       THEN IF dest # "NIL"
              THEN IF outcnt = outlen
                     THEN [c0 EXCEPT !.kind = "ret", !.ret = 1]
                     ELSE [c0 EXCEPT !.out = Append(@, d1.sym),
                                     !.adler = adler32(@, d1.sym),
                                     !.outcnt = @ + 1]
              ELSE [c0 EXCEPT !.outcnt = @ + 1]
     ELSE IF d1.sym = 256 THEN [c0 EXCEPT !.kind = "ret", !.ret = 0]
     ELSE IF d1.sym - 257 >= 29 THEN [c0 EXCEPT !.kind = "ret", !.ret = -10]
     ELSE codes_length(c0, d1.sym - 257)


(***************************************************************************)
(* dynamic() (src/puff.c:1001-1312) in three parts: the counts and the     *)
(* code length code (lines 1025-1147), one iteration of the loop that      *)
(* reads the literal/length and distance code lengths (lines 1151-1268),   *)
(* and the construction of the two tables (lines 1270-1301).  kind is      *)
(* "jmp", "ret" or "next" as for codes_step.                               *)
(***************************************************************************)
(* Lines 1080-1108: lengths[order[index]] = bits(s, 3) for index < ncode.  *)
RECURSIVE dynamic_read_ncode(_, _, _)
dynamic_read_ncode(c, idx, ncode) ==
  IF idx = ncode THEN c
  ELSE LET b == bits(c, 3)
       IN IF b.jmp
            THEN [codes_reader(c, b) EXCEPT !.kind = "jmp"]
            ELSE dynamic_read_ncode(
                   [codes_reader(c, b) EXCEPT
                      !.lengths[order[idx + 1] + 1] = b.val],
                   idx + 1, ncode)

(* Lines 1109-1125: the code length code lengths not stored are zero.      *)
dynamic_zero_rest(lens19, ncode) ==
  [i \in 1..MAXCODES |->
     IF \E idx \in ncode..18 : order[idx + 1] + 1 = i THEN 0 ELSE lens19[i]]

(* A variant that lets an incomplete code length code pass.                *)
dynamic_lengths_code_rejected_if_over(e) == e < 0

(* The test of src/puff.c:1137 on the value e of construct() for the 19    *)
(* code length code lengths.                                               *)
dynamic_lengths_code_rejected(e) == e # 0

(* Lines 1025-1147: the counts, the code length code lengths, their table. *)
dynamic_header(s) ==
  LET b1 == bits(s, 5)
      b2 == bits(b1, 5)
      b3 == bits(b2, 4)
      n1 == b1.val + 257
      n2 == b2.val + 1
      ncode == b3.val + 4
      c0 == [kind |-> "next", ret |-> 0, incnt |-> s.incnt,
             bitbuf |-> s.bitbuf, bitcnt |-> s.bitcnt,
             nlen |-> nlen, ndist |-> ndist, lengths |-> lengths,
             lencode |-> lencode, BTYPE |-> NoField]
      c3 == [codes_reader(c0, b3) EXCEPT !.nlen = n1, !.ndist = n2]
      c4 == dynamic_read_ncode([c3 EXCEPT !.BTYPE = 2], 0, ncode)
      l19 == dynamic_zero_rest(c4.lengths, ncode)
      t == construct(lencode, l19, 19)
  IN IF b1.jmp THEN [codes_reader(c0, b1) EXCEPT !.kind = "jmp"]
     ELSE IF b2.jmp
       THEN [codes_reader(c0, b2) EXCEPT !.kind = "jmp", !.nlen = n1]
     ELSE IF b3.jmp THEN [c3 EXCEPT !.kind = "jmp"]
     ELSE IF n1 > MAXLCODES \/ n2 > MAXDCODES
       THEN [c3 EXCEPT !.kind = "ret", !.ret = -3]
     ELSE IF c4.kind = "jmp" THEN c4
     ELSE IF dynamic_lengths_code_rejected(t.ret)
       THEN [c4 EXCEPT !.kind = "ret", !.ret = -4, !.lengths = l19,
                       !.lencode = Table(t)]
       ELSE [c4 EXCEPT !.lengths = l19, !.lencode = Table(t)]

(* A variant that leaves one slot out before the run.                      *)
dynamic_repeat_from_next(ls, idx, repeat_times, len) ==
  [i \in 1..MAXCODES |->
     IF i - 1 > idx /\ i - 1 <= idx + repeat_times THEN len ELSE ls[i]]

(* Lines 1258-1259: lengths[index++] = len, repeat_times times.            *)
dynamic_repeat(ls, idx, repeat_times, len) ==
  [i \in 1..MAXCODES |->
     IF i - 1 >= idx /\ i - 1 < idx + repeat_times THEN len ELSE ls[i]]

(* A variant that lets a repeat run one length too far.                    *)
dynamic_repeat_overruns_by_two(idx, repeat_times, n) ==
  idx + repeat_times > n + 1

(* The test of src/puff.c:1255.                                            *)
dynamic_repeat_overruns(idx, repeat_times, n) == idx + repeat_times > n

(* Lines 1150-1268: one code length symbol and what it stands for.         *)
dynamic_length_step(s) ==
  LET d == decode(s, lencode)
      c0 == [kind |-> "next", ret |-> 0, incnt |-> d.incnt,
             bitbuf |-> d.bitbuf, bitcnt |-> d.bitcnt,
             lengths |-> lengths, index |-> index]
      need == IF d.sym = 16 THEN 2 ELSE IF d.sym = 17 THEN 3 ELSE 7
      b == bits(c0, need)
      c1 == codes_reader(c0, b)
      len == IF d.sym = 16 THEN lengths[index] ELSE 0
      repeat_times == (IF d.sym = 18 THEN 11 ELSE 3) + b.val
  IN IF d.jmp THEN [c0 EXCEPT !.kind = "jmp"]
     ELSE IF d.sym < 0 THEN [c0 EXCEPT !.kind = "ret", !.ret = d.sym]
     ELSE IF d.sym < 16
       THEN [c0 EXCEPT !.lengths[index + 1] = d.sym, !.index = @ + 1]
     ELSE IF d.sym = 16 /\ index = 0
       THEN [c0 EXCEPT !.kind = "ret", !.ret = -5]
     ELSE IF b.jmp THEN [c1 EXCEPT !.kind = "jmp"]
     ELSE IF dynamic_repeat_overruns(index, repeat_times, nlen + ndist)
       THEN [c1 EXCEPT !.kind = "ret", !.ret = -6]
       ELSE [c1 EXCEPT
               !.lengths = dynamic_repeat(lengths, index, repeat_times, len),
               !.index = @ + repeat_times]

(* A variant that looks at the symbol after the end-of-block symbol.       *)
dynamic_no_first_length_symbol(ls) == ls[257 + 1] = 0

(* The test of src/puff.c:1273: lengths[256] == 0.                         *)
dynamic_no_end_of_block(ls) == ls[256 + 1] = 0

(* A variant that accepts no incomplete code at all.                       *)
dynamic_code_rejected_unless_complete(e, n, count) == e # 0

(* The test of src/puff.c:1286 and 1295 on the value e of construct() for  *)
(* n lengths: an incomplete code is fine only when every symbol that has a *)
(* code has one of length 1.                                               *)
dynamic_code_rejected(e, n, count) ==
  e # 0 /\ (e < 0 \/ n # count[1] + count[2])

(* Lines 1270-1301: the end-of-block test and the two tables.              *)
dynamic_tables ==
  LET tl == construct(lencode, SubSeq(lengths, 1, nlen), nlen)
      td == construct(distcode, SubSeq(lengths, nlen + 1, nlen + ndist),
                      ndist)
      c0 == [kind |-> "next", ret |-> 0, lencode |-> lencode,
             distcode |-> distcode]
  IN IF dynamic_no_end_of_block(lengths)
       THEN [c0 EXCEPT !.kind = "ret", !.ret = -9]
     ELSE IF dynamic_code_rejected(tl.ret, nlen, tl.count)
       THEN [c0 EXCEPT !.kind = "ret", !.ret = -7, !.lencode = Table(tl)]
     ELSE IF dynamic_code_rejected(td.ret, ndist, td.count)
       THEN [c0 EXCEPT !.kind = "ret", !.ret = -8, !.lencode = Table(tl),
                       !.distcode = Table(td)]
       ELSE [c0 EXCEPT !.lencode = Table(tl), !.distcode = Table(td)]


(***************************************************************************)
(* Bounds of the model and the inputs it enumerates: every sequence of at  *)
(* most MaxInLen bytes of ByteAlphabet, and a corpus of DEFLATE streams.   *)
(***************************************************************************)
MaxInLen == 3
MaxOutLen == 2

(* Bytes that start stored, fixed and invalid blocks, final or not, and    *)
(* bytes that make LEN/NLEN pairs.                                         *)
ByteAlphabet == {0, 1, 3, 255}

(* one final stored block, LEN = 0 *)
in_stored_empty_final == << 1, 0, 0, 255, 255 >>
(* the same followed by the Adler-32 of no bytes, big-endian *)
in_zlib_empty_stored == << 1, 0, 0, 255, 255, 0, 0, 0, 1 >>
(* one stored block with BFINAL = 0, LEN = 0, and nothing after it *)
in_stored_empty_nonfinal == << 0, 0, 0, 255, 255 >>
(* final stored block holding "A" *)
in_stored_1 == << 1, 1, 0, 254, 255, 65 >>
(* final stored block holding "AB" *)
in_stored_2 == << 1, 2, 0, 253, 255, 65, 66 >>
(* final stored block holding "ABC", one byte after it *)
in_stored_3 == << 1, 3, 0, 252, 255, 65, 66, 67, 7 >>
(* stored block whose NLEN is not the complement of LEN, ending the input *)
in_stored_badnlen_at_end == << 1, 0, 0, 0, 0 >>
(* the same with one more byte after it *)
in_stored_badnlen == << 1, 0, 0, 0, 0, 0 >>
(* stored "A" (BFINAL = 0), stored "B" (BFINAL = 1), one byte after *)
in_stored_stored == << 0, 1, 0, 254, 255, 65, 1, 1, 0, 254, 255, 66, 0 >>
(* final fixed block: end-of-block only *)
in_fixed_empty == << 3, 0 >>
(* the same, then the Adler-32 of the empty string, big-endian: the bytes  *)
(* of the zlib stream 78 9C 03 00 00 00 00 01 after its two header bytes   *)
in_zlib_empty_fixed == << 3, 0, 0, 0, 0, 1 >>
(* final fixed block: literal "a"; then the Adler-32 of "a", big-endian *)
in_fixed_a == << 75, 4, 0, 0, 98, 0, 98 >>
(* fixed: "a", (length 4, distance 1); then CRC-32 of "aaaaa" and ISIZE =  *)
(* 5, little-endian                                                        *)
in_fixed_a_rle4 == << 75, 4, 1, 0, 185, 147, 172, 238, 5, 0, 0, 0 >>
(* fixed: "abcd", (length 12, distance 4); one byte after *)
in_fixed_abcd_x4 == << 75, 76, 74, 78, 65, 198, 0, 0 >>
(* fixed: "a", (length 258, distance 1); one byte after *)
in_fixed_a_rle258 == << 75, 28, 5, 0, 0 >>
(* fixed: "a", (length 3, distance 2): distance too far back *)
in_fixed_toofar == << 75, 4, 66, 0, 0 >>
(* fixed: literal 200, a 9-bit code *)
in_fixed_lit9 == << 59, 1, 0, 0 >>
(* fixed: length symbol 286 *)
in_fixed_sym286 == << 27, 3, 0 >>
(* fixed: "a", length symbol 257, distance symbol 30 *)
in_fixed_dist30 == << 75, 4, 62, 0, 0 >>
(* fixed "a" (BFINAL = 0), fixed (length 3, distance 1) (BFINAL = 1) *)
in_fixed_fixed_backref_across == << 74, 4, 12, 8, 0, 0 >>
(* fixed literal 200, empty fixed, then BTYPE = 3 in the last bits of the  *)
(* input                                                                   *)
in_fixed_fixed_invalid_at_end == << 58, 1, 16, 224 >>
(* BTYPE = 3, one byte after *)
in_invalid == << 7, 0 >>
(* dynamic: "a" 1 bit, 256 and 257 2 bits, distance 0 1 bit: "aa", (3, 1) *)
in_dyn_a == << 13, 192, 129, 0, 0, 0, 0, 128, 32, 214, 252, 37, 62, 22, 0 >>
(* dynamic: "ab", (length 3, distance 2); then the Adler-32 of "ababa" *)
in_dyn_abab == << 13, 193, 129, 0, 0, 0, 0, 128, 32, 214, 247, 135, 248,
  194, 7, 5, 186, 1, 232 >>
(* stored "A", fixed "b" (3, 2), dynamic "a" (3, 1) *)
in_mix_stored_fixed_dyn == << 0, 1, 0, 254, 255, 65, 74, 2, 66, 64, 3, 112,
  32, 0, 0, 0, 0, 32, 136, 53, 127, 137, 207, 2, 0 >>
(* dynamic: nlen = 287 *)
in_dyn_badcounts == << 245, 192, 129, 0, 0, 0, 0, 128, 32, 214, 252, 37,
  158, 36, 0 >>
(* dynamic: incomplete code length code *)
in_dyn_cl_incomplete == << 13, 192, 129, 0, 0, 0, 0, 0, 32, 0, 0, 0 >>
(* dynamic: over-subscribed code length code *)
in_dyn_cl_oversub == << 13, 192, 129, 0, 0, 0, 0, 64, 16, 0, 0, 0 >>
(* dynamic: symbol 16 with no previous length *)
in_dyn_rep_nofirst == << 13, 192, 3, 0, 0, 0, 0, 0, 144, 0, 0, 0, 0 >>
(* dynamic: repeat runs past nlen + ndist *)
in_dyn_rep_overrun == << 13, 192, 129, 0, 0, 0, 0, 128, 32, 127, 127, 0, 0,
  0 >>
(* dynamic: no code for symbol 256 *)
in_dyn_no_eob == << 13, 192, 129, 0, 0, 0, 0, 128, 32, 214, 252, 41, 10, 0,
  0, 0 >>
(* dynamic: incomplete literal/length code of more than one symbol *)
in_dyn_ll_incomplete == << 5, 192, 129, 0, 0, 0, 0, 128, 32, 214, 252, 37,
  14, 0, 0, 0 >>
(* dynamic: incomplete distance code of more than one symbol *)
in_dyn_dist_incomplete == << 13, 192, 129, 0, 0, 0, 0, 128, 32, 214, 252,
  37, 126, 0, 0, 0 >>
(* dynamic: the only literal/length code is 256, 1 bit *)
in_dyn_single_eob == << 5, 192, 129, 0, 0, 0, 0, 0, 144, 255, 107, 0, 0 >>
(* dynamic: no distance code at all, literal "a" *)
in_dyn_nodist == << 13, 192, 129, 12, 0, 0, 0, 192, 32, 214, 252, 37, 254,
  9, 0 >>
(* dynamic: no distance code at all, "a" then a length symbol *)
in_dyn_nodist_backref == << 13, 192, 129, 12, 0, 0, 0, 192, 32, 214, 252,
  37, 254, 25, 0, 0, 0 >>
(* dynamic: every code length code length is 0 *)
in_dyn_cl_empty == << 13, 0, 0, 0, 0, 0, 0 >>
(* dynamic: over-subscribed literal/length code that has symbol 256 *)
in_dyn_ll_oversub ==
  << 13, 192, 129, 0, 0, 0, 0, 128, 32, 214, 252, 37, 42, 0, 0, 0 >>
(* dynamic: over-subscribed distance code *)
in_dyn_dist_oversub ==
  << 13, 194, 129, 0, 0, 0, 0, 128, 32, 214, 252, 37, 190, 2, 0, 0, 0 >>
(* dynamic: over-subscribed literal/length code without symbol 256 *)
in_dyn_no_eob_oversub ==
  << 13, 192, 129, 0, 0, 0, 0, 128, 32, 214, 242, 151, 40, 0, 0, 0 >>
(* dynamic: no symbol 256, and an incomplete distance code of one 2-bit    *)
(* symbol                                                                  *)
in_dyn_no_eob_baddist ==
  << 13, 192, 129, 0, 0, 0, 0, 128, 32, 214, 252, 41, 26, 0, 0, 0 >>
(* dynamic: 256 lengths, then symbol 16 asks for three more of the 258 *)
in_dyn_rep16_overrun ==
  << 5, 192, 133, 0, 0, 0, 0, 0, 32, 127, 234, 6, 0, 0, 0 >>
(* dynamic: 256 lengths, then symbol 17 asks for three more of the 258 *)
in_dyn_rep17_overrun == << 5, 0, 144, 224, 255, 26, 0, 0, 0, 0 >>
(* dynamic: "ab", (3, 2); the lengths of 256, 257 and of the four         *)
(* distance symbols are 2, sent as one 2 and symbol 16 for five more       *)
in_dyn_rep16_across ==
  << 13, 131, 133, 0, 0, 0, 0, 128, 88, 203, 31, 162, 197, 13 >>
(* dynamic: "aaaa", (3, 4); nlen = 261 and ndist = 4: symbol 17 gives the  *)
(* zeros of 258..260 and of the distance symbols 0..2                      *)
in_dyn_rep17_across ==
  << 37, 195, 161, 0, 0, 0, 0, 192, 48, 214, 249, 75, 252, 109, 176, 0 >>

Corpus == { in_stored_empty_final, in_zlib_empty_stored,
  in_stored_empty_nonfinal, in_stored_1, in_stored_2, in_stored_3,
  in_stored_badnlen_at_end, in_stored_badnlen, in_stored_stored,
  in_fixed_empty, in_zlib_empty_fixed, in_fixed_a, in_fixed_a_rle4, in_fixed_abcd_x4,
  in_fixed_a_rle258, in_fixed_toofar, in_fixed_lit9, in_fixed_sym286,
  in_fixed_dist30, in_fixed_fixed_backref_across,
  in_fixed_fixed_invalid_at_end, in_invalid, in_dyn_a, in_dyn_abab,
  in_mix_stored_fixed_dyn, in_dyn_badcounts, in_dyn_cl_incomplete,
  in_dyn_cl_oversub, in_dyn_rep_nofirst, in_dyn_rep_overrun, in_dyn_no_eob,
  in_dyn_ll_incomplete, in_dyn_dist_incomplete, in_dyn_single_eob,
  in_dyn_nodist, in_dyn_nodist_backref, in_dyn_cl_empty, in_dyn_ll_oversub,
  in_dyn_dist_oversub, in_dyn_no_eob_oversub, in_dyn_no_eob_baddist,
  in_dyn_rep16_overrun, in_dyn_rep17_overrun, in_dyn_rep16_across,
  in_dyn_rep17_across }

(* Streams cut short at every byte: the input ends inside a block header,  *)
(* a stored header, a code length code, a code length, a literal/length    *)
(* symbol, a distance symbol, extra bits.                                  *)
Prefixes(src) == {SubSeq(src, 1, n) : n \in 0..Len(src)}

Truncated ==
  UNION {Prefixes(src) :
           src \in {in_mix_stored_fixed_dyn, in_fixed_abcd_x4, in_dyn_abab}}

Inputs == UNION {[1..n -> ByteAlphabet] : n \in 0..MaxInLen} \cup Corpus

NoScan == [ret |-> 0, destlen |-> 0, sourcelen |-> 0]

NoResult == [jmp |-> FALSE, sym |-> 0, incnt |-> 0, bitbuf |-> 0,
             bitcnt |-> 0]

(***************************************************************************)
(* Entry of puff() (src/puff.c:1364-1389): the state after the             *)
(* initialisation of s and the first return of setjmp().                   *)
(***************************************************************************)
PuffEntry(src, d, cap) ==
  /\ source = src
  /\ inlen = Len(src)
  /\ incnt = 0
  /\ bitbuf = 0
  /\ bitcnt = 0
  /\ dest = d
  /\ outlen = cap
  /\ out = << >>
  /\ outcnt = 0
  /\ pc = "block"
  /\ last = 0
  /\ type = 0
  /\ err = 0
  /\ block_index = 0
  /\ block_start_bit_position = 0
  /\ trace = << >>
  /\ lencode = NoTable
  /\ distcode = NoTable
  /\ lengths = [i \in 1..MAXCODES |-> 0]
  /\ nlen = 0
  /\ ndist = 0
  /\ index = 0
  /\ copy = NoCopy
  /\ ret = 0
  /\ destlen = cap
  /\ sourcelen = Len(src)

(* A run is a direct call of puff() with a buffer of some capacity, or a   *)
(* run of one of the drivers with the option -w: its first call is         *)
(* puff(NIL, &destlen, ...) with destlen not initialised                   *)
(* (src/zlib_dump.c:265, src/gzip_dump.c:515), any value.                  *)
Runs ==
  [src : Inputs, dest : {"BUF"}, cap : 0..MaxOutLen, caller : {"puff"}]
  \cup [src : Inputs \cup Truncated, dest : {"NIL"}, cap : 0..MaxOutLen,
        caller : {"zlib_dump", "gzip_dump"}]

Init ==
  /\ \E run \in Runs :
       /\ PuffEntry(run.src, run.dest, run.cap)
       /\ caller = run.caller
  /\ adler32_checksum = Word32(0, 1)
  /\ pass = 1
  /\ scan = NoScan
  /\ checksum_calculated = << >>
  /\ hsym = 0
  /\ hpos = 0
  /\ hres = NoResult

inputv == << source, inlen >>
outv == << dest, outlen >>
bufv == << out, outcnt, adler32_checksum >>
dynv == << lengths, nlen, ndist, index >>
tabv == << lencode, distcode >>
resv == << ret, destlen, sourcelen >>
drvv == << caller, pass, scan, checksum_calculated >>
harv == << hsym, hpos, hres >>

SetReader(r) ==
  /\ incnt' = r.incnt
  /\ bitbuf' = r.bitbuf
  /\ bitcnt' = r.bitcnt

(* A variant in which running out of input is one more error of the       *)
(* block, handled at the end of the loop body.                             *)
UnwindToBlockEnd(r) ==
  /\ SetReader(r)
  /\ err' = 2
  /\ pc' = "blockend"

(* The landing of longjmp() (src/puff.c:1386-1389): err = 2, and the block *)
(* loop is skipped.                                                        *)
Unwind(r) ==
  /\ SetReader(r)
  /\ err' = 2
  /\ pc' = "finish"

(* A store through s.out at an index >= s.outlen is outside the buffer the *)
(* caller gave: the program may go on as if the byte was stored, or stop.  *)
Overflows(o) == dest = "BUF" /\ Len(o) > outlen /\ Len(o) > Len(out)

TraceLast(f, v) ==
  [trace EXCEPT ![Len(trace)] =
     [fld \in DOMAIN @ |-> IF fld = f THEN v ELSE @[fld]]]

(***************************************************************************)
(* The block loop of puff() (src/puff.c:1391-1456).                        *)
(***************************************************************************)
(* Lines 1392-1416: BFINAL, the BLOCK_BIT_POSITION record, BTYPE.          *)
PuffBlockHeader ==
  /\ pc = "block"
  /\ LET b1 == bits(S, 1)
         b2 == bits(b1, 2)
         rec == [BLOCK_BIT_POSITION |-> block_start_bit_position,
                 BFINAL |-> b1.val, BTYPE |-> NoField, LEN |-> NoField,
                 NLEN |-> NoField, BLOCK_BIT_SIZE |-> NoField]
     IN IF b1.jmp
          THEN /\ Unwind(b1)
               /\ UNCHANGED << last, type, block_index, trace >>
          ELSE /\ last' = b1.val
               /\ block_index' = block_index + 1
               /\ trace' = Append(trace, rec)
               /\ IF b2.jmp
                    THEN /\ Unwind(b2)
                         /\ UNCHANGED type
                    ELSE /\ SetReader(b2)
                         /\ type' = b2.val
                         /\ pc' = << "stored", "fixed", "dynamic",
                                     "invalid" >>[b2.val + 1]
                         /\ UNCHANGED err
  /\ UNCHANGED << copy, inputv, outv, bufv, block_start_bit_position, tabv,
                  dynv, resv, drvv, harv >>

(* Lines 1417-1418: err = stored(&s).                                      *)
PuffStored ==
  /\ pc = "stored"
  /\ LET r == stored(S)
         t0 == TraceLast("BTYPE", 0)
     IN /\ SetReader(r)
        /\ out' = r.out
        /\ outcnt' = r.outcnt
        /\ adler32_checksum' = r.adler
        /\ err' = r.ret
        /\ trace' = [t0 EXCEPT ![Len(trace)].LEN = r.LEN,
                               ![Len(trace)].NLEN = r.NLEN]
        /\ \E stop \in (IF Overflows(r.out) THEN BOOLEAN ELSE {FALSE}) :
             pc' = IF stop THEN "crashed" ELSE "blockend"
  /\ UNCHANGED << copy, inputv, outv, last, type, block_index,
                  block_start_bit_position, tabv, dynv, resv, drvv, harv >>

(* Lines 1419-1420 and fixed() up to its call of codes()                   *)
(* (src/puff.c:850-901).                                                   *)
PuffFixed ==
  /\ pc = "fixed"
  /\ trace' = TraceLast("BTYPE", 1)
  /\ lencode' = fixed_lencode
  /\ distcode' = fixed_distcode
  /\ pc' = "codes"
  /\ UNCHANGED << copy, inputv, incnt, bitbuf, bitcnt, outv, bufv, last, type,
                  err, block_index, block_start_bit_position, dynv, resv,
                  drvv, harv >>

(* One iteration of the loop of codes(), called from fixed() or dynamic(). *)
PuffCodes ==
  /\ pc = "codes"
  /\ LET r == codes_step(S)
     IN /\ out' = r.out
        /\ outcnt' = r.outcnt
        /\ adler32_checksum' = r.adler
        /\ copy' = r.copy
        /\ IF r.kind = "jmp"
             THEN Unwind(r)
             ELSE /\ SetReader(r)
                  /\ err' = IF r.kind = "ret" THEN r.ret ELSE err
                  /\ \E stop \in
                        (IF Overflows(r.out) THEN BOOLEAN ELSE {FALSE}) :
                       pc' = IF stop THEN "crashed"
                             ELSE IF r.kind = "ret" THEN "blockend"
                             ELSE "codes"
  /\ UNCHANGED << inputv, outv, last, type, block_index,
                  block_start_bit_position, trace, tabv, dynv, resv, drvv,
                  harv >>

(* Lines 1421-1422 and the first part of dynamic().                        *)
PuffDynamicHeader ==
  /\ pc = "dynamic"
  /\ LET r == dynamic_header(S)
     IN /\ nlen' = r.nlen
        /\ ndist' = r.ndist
        /\ lengths' = r.lengths
        /\ lencode' = r.lencode
        /\ index' = 0
        /\ trace' = TraceLast("BTYPE", r.BTYPE)
        /\ IF r.kind = "jmp"
             THEN Unwind(r)
             ELSE /\ SetReader(r)
                  /\ err' = IF r.kind = "ret" THEN r.ret ELSE err
                  /\ pc' = IF r.kind = "ret" THEN "blockend" ELSE "dynlen"
  /\ UNCHANGED << copy, inputv, outv, bufv, last, type, block_index,
                  block_start_bit_position, distcode, resv, drvv, harv >>

(* One iteration of while (index < nlen + ndist).                          *)
PuffDynamicLength ==
  /\ pc = "dynlen"
  /\ index < nlen + ndist
  /\ LET r == dynamic_length_step(S)
     IN /\ lengths' = r.lengths
        /\ index' = r.index
        /\ IF r.kind = "jmp"
             THEN Unwind(r)
             ELSE /\ SetReader(r)
                  /\ err' = IF r.kind = "ret" THEN r.ret ELSE err
                  /\ pc' = IF r.kind = "ret" THEN "blockend" ELSE "dynlen"
  /\ UNCHANGED << copy, inputv, outv, bufv, last, type, block_index,
                  block_start_bit_position, trace, tabv, nlen, ndist, resv,
                  drvv, harv >>

(* The loop is over: the end-of-block check and the two tables.            *)
PuffDynamicTables ==
  /\ pc = "dynlen"
  /\ index >= nlen + ndist
  /\ LET r == dynamic_tables
     IN /\ lencode' = r.lencode
        /\ distcode' = r.distcode
        /\ err' = IF r.kind = "ret" THEN r.ret ELSE err
        /\ pc' = IF r.kind = "ret" THEN "blockend" ELSE "codes"
  /\ UNCHANGED << copy, inputv, incnt, bitbuf, bitcnt, outv, bufv, last, type,
                  block_index, block_start_bit_position, trace, dynv, resv,
                  drvv, harv >>

(* Lines 1423-1435: type == 3.                                             *)
PuffInvalidType ==
  /\ pc = "invalid"
  /\ trace' = TraceLast("BTYPE", 3)
  /\ err' = -1
  /\ pc' = "blockend"
  /\ UNCHANGED << copy, inputv, incnt, bitbuf, bitcnt, outv, bufv, last, type,
                  block_index, block_start_bit_position, tabv, dynv, resv,
                  drvv, harv >>

(* Lines 1437-1456: BLOCK_BIT_SIZE, the next block's start, and whether    *)
(* the loop goes on.  next_start is what line 1443 assigns.                *)
block_bit_size(start, s) == get_input_bit_position(s) - start

(* A variant that takes the bytes read, not the bits used.                 *)
next_block_start_bytes(start, s) == ShiftL(s.incnt, 3)

next_block_start(start, s) == get_input_bit_position(s)

PuffBlockEnd ==
  /\ pc = "blockend"
  /\ LET next_start == next_block_start(block_start_bit_position, S)
     IN /\ trace' = TraceLast("BLOCK_BIT_SIZE",
                       block_bit_size(block_start_bit_position, S))
        /\ block_start_bit_position' = next_start
        /\ IF next_start = ShiftL(inlen, 3)
             THEN /\ err' = 0
                  /\ pc' = "finish"
             ELSE /\ err' = err
                  /\ pc' = IF err # 0 \/ last # 0 THEN "finish" ELSE "block"
  /\ UNCHANGED << copy, inputv, incnt, bitbuf, bitcnt, outv, bufv, last, type,
                  block_index, tabv, dynv, resv, drvv, harv >>

puff_updates_lengths_on_success(e) == e = 0

(* The test of src/puff.c:1472: the lengths are updated when puff() did    *)
(* not run out of input or of output space.                                *)
puff_updates_lengths(e) == e <= 0

(* Lines 1459-1476: update the lengths and return.                         *)
PuffReturn ==
  /\ pc = "finish"
  /\ ret' = err
  /\ destlen' = IF puff_updates_lengths(err) THEN outcnt ELSE destlen
  /\ sourcelen' = IF puff_updates_lengths(err) THEN incnt ELSE sourcelen
  /\ pc' = "returned"
  /\ UNCHANGED << copy, inputv, incnt, bitbuf, bitcnt, outv, bufv, last, type,
                  err, block_index, block_start_bit_position, trace, tabv,
                  dynv, drvv, harv >>

Puff ==
  \/ PuffBlockHeader
  \/ PuffStored
  \/ PuffFixed
  \/ PuffCodes
  \/ PuffDynamicHeader
  \/ PuffDynamicLength
  \/ PuffDynamicTables
  \/ PuffInvalidType
  \/ PuffBlockEnd
  \/ PuffReturn

(***************************************************************************)
(* The drivers.  zlib_dump() and gzip_dump() hand puff() the bytes after   *)
(* the header: source is those bytes and inlen their number, which is      *)
(* source_skip_header_size; sourcelen is decompressed_len.                 *)
(***************************************************************************)
(* A variant that leaves the byte order alone.                             *)
swap_uint32_identity(val) == val

(* swap_uint32() (src/utils.c:37-41).                                      *)
swap_uint32(val) ==
  LET hi == BitOr(ShiftL(val[1] % 256, 8), ShiftR(val[1], 8))
      lo == BitOr(ShiftL(val[2] % 256, 8), ShiftR(val[2], 8))
  IN Word32(lo, hi)

(* The four bytes of an unsigned int as print_hex_with_buffer() reads them *)
(* through the address of adler32_checksum (src/zlib_dump.c:243,           *)
(* src/gzip_dump.c:485), lowest address first: the least significant byte  *)
(* first, as on the little-endian hosts the tools are built for.           *)
object_bytes(val) ==
  << val[2] % 256, ShiftR(val[2], 8), val[1] % 256, ShiftR(val[1], 8) >>

(* The second call: main() allocates destlen bytes and calls the dump      *)
(* function again on the same input (src/zlib_dump.c:322-330,              *)
(* src/gzip_dump.c:572-580).                                               *)
SecondCall ==
  /\ scan' = [ret |-> ret, destlen |-> destlen, sourcelen |-> sourcelen]
  /\ pass' = 2
  /\ dest' = "BUF"
  /\ outlen' = destlen
  /\ sourcelen' = inlen
  /\ incnt' = 0
  /\ bitbuf' = 0
  /\ bitcnt' = 0
  /\ out' = << >>
  /\ outcnt' = 0
  /\ pc' = "block"
  /\ last' = 0
  /\ type' = 0
  /\ err' = 0
  /\ block_index' = 0
  /\ block_start_bit_position' = 0
  /\ trace' = << >>
  /\ lencode' = NoTable
  /\ distcode' = NoTable
  /\ lengths' = [i \in 1..MAXCODES |-> 0]
  /\ nlen' = 0
  /\ ndist' = 0
  /\ index' = 0
  /\ copy' = NoCopy
  /\ UNCHANGED << inputv, adler32_checksum, ret, destlen, caller,
                  checksum_calculated, harv >>

Exit ==
  /\ pc' = "exit"
  /\ UNCHANGED << inputv, incnt, bitbuf, bitcnt, outv, out, outcnt, last,
                  type, err, block_index, block_start_bit_position, trace,
                  tabv, dynv, copy, resv, caller, pass, scan, harv >>

(* main() of zlib_dump after the first call (src/zlib_dump.c:316-330;      *)
(* zlib_dump() returns ret, src/zlib_dump.c:217-223).                      *)
ZlibScanned ==
  /\ caller = "zlib_dump"
  /\ pc = "returned"
  /\ pass = 1
  /\ IF ret = 0
       THEN SecondCall
       ELSE Exit /\ UNCHANGED << adler32_checksum, checksum_calculated >>

(* zlib_dump() after puff() in the second call (src/zlib_dump.c:232-250).  *)
ZlibTrailer ==
  /\ caller = "zlib_dump"
  /\ pc = "returned"
  /\ pass = 2
  /\ Exit
  /\ IF inlen - sourcelen = 4
       THEN /\ adler32_checksum' = swap_uint32(adler32_checksum)
            /\ checksum_calculated' =
                 object_bytes(swap_uint32(adler32_checksum))
       ELSE UNCHANGED << adler32_checksum, checksum_calculated >>

(* main() of gzip_dump after the first call (src/gzip_dump.c:566-580).     *)
GzipScanned ==
  /\ caller = "gzip_dump"
  /\ pc = "returned"
  /\ pass = 1
  /\ IF ret = 0
       THEN SecondCall
       ELSE Exit /\ UNCHANGED << adler32_checksum, checksum_calculated >>

(* gzip_dump() after puff() in the second call (src/gzip_dump.c:473-500).  *)
GzipTrailer ==
  /\ caller = "gzip_dump"
  /\ pc = "returned"
  /\ pass = 2
  /\ Exit
  /\ IF inlen - sourcelen >= 4
       THEN /\ adler32_checksum' = swap_uint32(adler32_checksum)
            /\ checksum_calculated' =
                 object_bytes(swap_uint32(adler32_checksum))
       ELSE UNCHANGED << adler32_checksum, checksum_calculated >>

Next ==
  \/ Puff
  \/ ZlibScanned
  \/ ZlibTrailer
  \/ GzipScanned
  \/ GzipTrailer

Spec == Init /\ [][Next]_vars

(***************************************************************************)
(* A harness for the tables: construct() on a vector of code lengths, the  *)
(* code of one symbol laid in the input as decode() reads it, decode().    *)
(***************************************************************************)
MaxSymbols == 4
MaxCodeLen == 3

LengthVectors == UNION {[1..n -> 0..MaxCodeLen] : n \in 1..MaxSymbols}

(* Bits already consumed from the first byte when the code starts.         *)
Pads == {0, 5, 7}

(* The bits of code, most significant of its len bits first.               *)
CodeBits(code, len) == [t \in 1..len |-> ShiftR(code, len - t) % 2]

(* Bytes that hold a sequence of bits, the first bit in the least          *)
(* significant position as bits() and decode() take them                   *)
(* (src/puff.c:135-137, 346-358); the last byte is completed with fill.    *)
RECURSIVE ByteOf(_, _, _, _)
ByteOf(bs, fill, j, i) ==
  IF i = 8 THEN 0
  ELSE (IF 8 * j + i + 1 <= Len(bs) THEN bs[8 * j + i + 1] ELSE fill)
         * Pow2(i)
       + ByteOf(bs, fill, j, i + 1)

PackBits(bs, fill) ==
  [j \in 1..((Len(bs) + 7) \div 8) |-> ByteOf(bs, fill, j - 1, 0)]

HuffInit ==
  /\ lengths \in LengthVectors
  /\ pc = "hconstruct"
  /\ source = << >>
  /\ inlen = 0
  /\ incnt = 0
  /\ bitbuf = 0
  /\ bitcnt = 0
  /\ dest = "NIL"
  /\ outlen = 0
  /\ out = << >>
  /\ outcnt = 0
  /\ last = 0
  /\ type = 0
  /\ err = 0
  /\ block_index = 0
  /\ block_start_bit_position = 0
  /\ trace = << >>
  /\ lencode = NoTable
  /\ distcode = NoTable
  /\ nlen = 0
  /\ ndist = 0
  /\ index = 0
  /\ copy = NoCopy
  /\ adler32_checksum = Word32(0, 1)
  /\ ret = 0
  /\ destlen = 0
  /\ sourcelen = 0
  /\ caller = "construct"
  /\ pass = 1
  /\ scan = NoScan
  /\ checksum_calculated = << >>
  /\ hsym = 0
  /\ hpos = 0
  /\ hres = NoResult

huffv ==
  << dest, outlen, out, outcnt, last, type, block_index,
     block_start_bit_position, trace, distcode, nlen, ndist, index, copy,
     adler32_checksum, ret, destlen, sourcelen, caller, pass, scan,
     checksum_calculated >>

(* err = construct(&lencode, lengths, n).                                  *)
HuffConstruct ==
  /\ pc = "hconstruct"
  /\ LET r == construct(NoTable, lengths, Len(lengths))
     IN /\ lencode' = Table(r)
        /\ err' = r.ret
        /\ pc' = IF r.ret >= 0 /\ \E i \in DOMAIN lengths : lengths[i] # 0
                   THEN "hencode" ELSE "hrejected"
  /\ UNCHANGED << huffv, inputv, incnt, bitbuf, bitcnt, lengths, harv >>

(* The input becomes pad bits, then the code of a symbol that has one.     *)
HuffEncode ==
  /\ pc = "hencode"
  /\ \E symbol \in {i - 1 : i \in {k \in DOMAIN lengths : lengths[k] # 0}},
        pad \in Pads, fill \in {0, 1} :
       LET val == get_encoded_val_from_huffman_table(lencode, symbol)
           bs == [t \in 1..pad |-> fill] \o CodeBits(val, lengths[symbol + 1])
       IN /\ source' = PackBits(bs, fill)
          /\ inlen' = Len(source')
          /\ hsym' = symbol
          /\ hpos' = pad
  /\ pc' = "hskip"
  /\ UNCHANGED << huffv, incnt, bitbuf, bitcnt, lencode, lengths, err, hres >>

(* bits(s, pad): the reader stands at the first bit of the code.           *)
HuffSkip ==
  /\ pc = "hskip"
  /\ SetReader(bits(S, hpos))
  /\ pc' = "hdecode"
  /\ UNCHANGED << huffv, inputv, lencode, lengths, err, harv >>

(* hres = decode(s, &lencode).                                             *)
HuffDecode ==
  /\ pc = "hdecode"
  /\ hres' = decode(S, lencode)
  /\ SetReader(hres')
  /\ pc' = "hdecoded"
  /\ UNCHANGED << huffv, inputv, lencode, lengths, err, hsym, hpos >>

HuffNext ==
  \/ HuffConstruct
  \/ HuffEncode
  \/ HuffSkip
  \/ HuffDecode

SpecHuffman == HuffInit /\ [][HuffNext]_vars

(***************************************************************************)
(* Harnesses for the single routines.  The variables a harness does not    *)
(* use keep the values of HarnessIdle.                                     *)
(***************************************************************************)
HarnessIdle ==
  /\ dest = "NIL"
  /\ outlen = 0
  /\ out = << >>
  /\ outcnt = 0
  /\ last = 0
  /\ type = 0
  /\ err = 0
  /\ block_index = 0
  /\ block_start_bit_position = 0
  /\ trace = << >>
  /\ lencode = NoTable
  /\ distcode = NoTable
  /\ lengths = [i \in 1..MAXCODES |-> 0]
  /\ nlen = 0
  /\ ndist = 0
  /\ index = 0
  /\ copy = NoCopy
  /\ adler32_checksum = Word32(0, 1)
  /\ ret = 0
  /\ destlen = 0
  /\ sourcelen = 0
  /\ pass = 1
  /\ scan = NoScan
  /\ checksum_calculated = << >>
  /\ hsym = 0

idlev ==
  << dest, outlen, out, outcnt, last, type, err, block_index,
     block_start_bit_position, trace, lencode, distcode, lengths, nlen,
     ndist, index, copy, adler32_checksum, ret, destlen, sourcelen, pass,
     scan, checksum_calculated, hsym >>

(***************************************************************************)
(* bits() called again and again on one input (src/puff.c:126-145), with   *)
(* every need of 0..16 bits, until a call leaves by longjmp().             *)
(***************************************************************************)
BitBytes == {0, 90, 165, 255}

BitsInit ==
  /\ HarnessIdle
  /\ caller = "bits"
  /\ source \in UNION {[1..n -> BitBytes] : n \in 0..MaxInLen}
  /\ inlen = Len(source)
  /\ incnt = 0
  /\ bitbuf = 0
  /\ bitcnt = 0
  /\ pc = "bits"
  /\ hpos = 0
  /\ hres = NoResult

(* hres = bits(s, need); need is kept in hpos.                             *)
BitsCall ==
  /\ pc = "bits"
  /\ \E need \in 0..16 :
       /\ hpos' = need
       /\ hres' = bits(S, need)
  /\ SetReader(hres')
  /\ pc' = IF hres'.jmp THEN "unwound" ELSE "bits"
  /\ UNCHANGED << idlev, inputv, caller >>

BitsNext == BitsCall

SpecBits == BitsInit /\ [][BitsNext]_vars

(***************************************************************************)
(* zlib_dump() from its first statement (src/zlib_dump.c:197-256): the     *)
(* two header bytes, then puff() on the bytes after them.  hpos is the     *)
(* header as CMF * 256 + FLG, source the bytes after it, hres what         *)
(* decode_zlib_header() printed and returned.                              *)
(***************************************************************************)
(* A variant that accepts the smaller windows too.                         *)
zlib_info_rejected_if_larger(comp_info) == comp_info > 7

(* The test of src/zlib_dump.c:133.                                        *)
zlib_info_rejected(comp_info) == comp_info # 7

(* decode_zlib_header() (src/zlib_dump.c:89-195).  A field not printed is  *)
(* NoField; source is never NULL (src/zlib_dump.c:289-292).                *)
decode_zlib_header(cmf, flags) ==
  LET comp_method == cmf % 16
      comp_info == ShiftR(cmf, 4) % 16
      h0 == [ret |-> -1, COMPRESSION_METHOD |-> comp_method,
             COMPRESSION_INFO |-> NoField, FCHECK |-> NoField,
             FCHECK_description |-> "", FDICT |-> NoField,
             FLEVEL |-> NoField]
  IN IF comp_method # 8 THEN h0
     ELSE IF zlib_info_rejected(comp_info)
       THEN [h0 EXCEPT !.COMPRESSION_INFO = comp_info]
       ELSE [h0 EXCEPT
               !.ret = 0,
               !.COMPRESSION_INFO = comp_info,
               !.FCHECK = flags % 32,
               !.FCHECK_description =
                  IF (cmf * 256 + flags) % 31 # 0 THEN "check failed"
                  ELSE "check success",
               !.FDICT = ShiftR(flags, 5) % 2,
               !.FLEVEL = ShiftR(flags, 6) % 4]

(* FLG bytes: valid checks for the four levels and with a dictionary, and  *)
(* one wrong check.                                                        *)
ZlibFlags == {1, 94, 156, 157, 187, 218}

ZlibPayloads == {in_zlib_empty_fixed, in_mix_stored_fixed_dyn, in_invalid}

ZlibInit ==
  /\ HarnessIdle
  /\ caller = "zlib_dump"
  /\ hpos \in {cmf * 256 + flags : cmf \in 0..255, flags \in ZlibFlags}
  /\ source \in ZlibPayloads
  /\ inlen = Len(source)
  /\ incnt = 0
  /\ bitbuf = 0
  /\ bitcnt = 0
  /\ pc = "zheader"
  /\ hres = NoResult

(* Line 213: decode_zlib_header(source, print_level + 2).                  *)
ZlibHeader ==
  /\ pc = "zheader"
  /\ hres' = decode_zlib_header(hpos \div 256, hpos % 256)
  /\ pc' = "zheaded"
  /\ UNCHANGED << idlev, inputv, incnt, bitbuf, bitcnt, caller, hpos >>

(* Lines 213-218: return -1, or call puff() with decompressed_len =        *)
(* source_skip_header_size.                                                *)
ZlibDumpCall ==
  /\ pc = "zheaded"
  /\ IF hres.ret # 0
       THEN /\ ret' = -1
            /\ pc' = "exit"
            /\ UNCHANGED sourcelen
       ELSE /\ sourcelen' = inlen
            /\ pc' = "block"
            /\ UNCHANGED ret
  /\ UNCHANGED << dest, outlen, out, outcnt, last, type, err, block_index,
                  block_start_bit_position, trace, lencode, distcode,
                  lengths, nlen, ndist, index, copy, adler32_checksum,
                  destlen, pass, scan, checksum_calculated, inputv, incnt,
                  bitbuf, bitcnt, caller, harv >>

ZlibNext ==
  \/ ZlibHeader
  \/ ZlibDumpCall
  \/ Puff
  \/ ZlibScanned
  \/ ZlibTrailer

SpecZlib == ZlibInit /\ [][ZlibNext]_vars

(***************************************************************************)
(* decode_zstd_header() (src/zstd_dump.c:91-334) on the Frame Header       *)
(* Descriptor source[4] and the byte after it.  mantissa, exponent,        *)
(* window_log, window_base, window_add and window_size are unsigned char   *)
(* (line 94): each assignment keeps the low 8 bits.                        *)
(***************************************************************************)
(* 1 << window_log (line 233) is computed in int.  A shift by 32 or more   *)
(* is undefined: the builds at hand shift by window_log % 32 or give 0.    *)
(* The low 8 bits of 1 << count, count < 32, are all that is kept.         *)
zstd_shift_low8(count) == IF count < 8 THEN Pow2(count) ELSE 0

zstd_window_bases(window_log) ==
  IF window_log < 32 THEN {zstd_shift_low8(window_log)}
  ELSE {zstd_shift_low8(window_log % 32), 0}

decode_zstd_header(flags, descriptor, window_base) ==
  LET dic_id_flag == flags % 4
      single_segment_flag == ShiftR(flags, 5) % 2
      frame_content_size_flag == ShiftR(flags, 6) % 4
      dic_id_size == IF dic_id_flag = 3 THEN 4 ELSE dic_id_flag
      frame_content_size_size ==
        IF frame_content_size_flag = 0
          THEN (IF single_segment_flag = 1 THEN 1 ELSE 0)
        ELSE Pow2(frame_content_size_flag)
      mantissa == descriptor % 8
      exponent == ShiftR(descriptor, 3)
      window_log == (10 + exponent) % 256
      window_add == ((window_base \div 8) * mantissa) % 256
      window_size == (window_base + window_add) % 256
      window_des_size == IF single_segment_flag = 0 THEN 1 ELSE 0
  IN [ret |-> window_des_size + dic_id_size + frame_content_size_size + 5,
      single_segment_flag |-> single_segment_flag,
      mantissa |-> IF single_segment_flag = 0 THEN mantissa ELSE NoField,
      exponent |-> IF single_segment_flag = 0 THEN exponent ELSE NoField,
      window_size |-> IF single_segment_flag = 0 THEN window_size ELSE NoField]

(* The magic number of a frame and the Frame Header Descriptors tried.     *)
ZstdMagic == <<40, 181, 47, 253>>

ZstdFrameDescriptors == {0, 3, 32, 64, 128, 227}

ZstdInit ==
  /\ HarnessIdle
  /\ caller = "zstd_dump"
  /\ \E flags \in ZstdFrameDescriptors : \E descriptor \in 0..255 :
       source = ZstdMagic \o <<flags, descriptor>>
  /\ inlen = Len(source)
  /\ incnt = 0
  /\ bitbuf = 0
  /\ bitcnt = 0
  /\ pc = "zstdheader"
  /\ hpos = 0
  /\ hres = NoResult

(* zstd_dump() calls decode_zstd_header() (src/zstd_dump.c:408).           *)
ZstdHeader ==
  /\ pc = "zstdheader"
  /\ \E window_base \in zstd_window_bases(10 + ShiftR(source[6], 3)) :
       hres' = decode_zstd_header(source[5], source[6], window_base)
  /\ pc' = "zstdheaded"
  /\ UNCHANGED << idlev, inputv, incnt, bitbuf, bitcnt, caller, hpos >>

ZstdNext == ZstdHeader

SpecZstd == ZstdInit /\ [][ZstdNext]_vars

(***************************************************************************)
(* decode() as compiled with SLOW defined (src/puff.c:304-326): one        *)
(* bits(s, 1) for every bit of the code.  The result has the form of that  *)
(* of decode(); after -10 the 15 bits are consumed.                        *)
(***************************************************************************)
(* A variant that does not double first for the next length.               *)
decode_slow_first_undoubled(first, count) == first + count

(* Lines 319-320: first += count; first <<= 1.                             *)
decode_slow_first(first, count) == ShiftL(first + count, 1)

RECURSIVE decode_slow_loop(_, _, _)
decode_slow_loop(s, h, d) ==
  IF d.len > MAXBITS
    THEN [jmp |-> FALSE, sym |-> -10, incnt |-> s.incnt, bitbuf |-> s.bitbuf,
          bitcnt |-> s.bitcnt]
  ELSE LET b == bits(s, 1)
           code == BitOr(d.code, b.val)
           count == h.count[d.len + 1]
       IN IF b.jmp
            THEN [jmp |-> TRUE, sym |-> 0, incnt |-> b.incnt,
                  bitbuf |-> b.bitbuf, bitcnt |-> b.bitcnt]
          ELSE IF code - count < d.first
            THEN [jmp |-> FALSE,
                  sym |-> h.symbol[d.index + (code - d.first) + 1],
                  incnt |-> b.incnt, bitbuf |-> b.bitbuf,
                  bitcnt |-> b.bitcnt]
          ELSE decode_slow_loop(b, h,
                 [code |-> ShiftL(code, 1),
                  first |-> decode_slow_first(d.first, count),
                  index |-> d.index + count,
                  len |-> d.len + 1])

decode_slow(s, h) ==
  decode_slow_loop(s, h, [code |-> 0, first |-> 0, index |-> 0, len |-> 1])

(***************************************************************************)
(* A harness for decode(): a table construct() accepts, any input, some    *)
(* bits taken with bits(), then decode() until a call finds no symbol.     *)
(***************************************************************************)
DecodeLengths ==
  { <<1, 1>>, <<1, 2, 2>>, <<2, 2, 2, 2>>, <<1, 2, 3, 3>>, <<3, 3, 3, 3, 2, 2>>,
    <<1>>, <<0, 1>>, <<2, 2, 2>>, <<0, 3, 0, 3>>, <<0, 0>>, <<1, 1, 1>>,
    fixed_lengths }

DecodeBytes == {0, 85, 255}

DecodeInit ==
  /\ HarnessIdle
  /\ caller = "decode"
  /\ source \in UNION {[1..n -> DecodeBytes] : n \in 0..MaxInLen}
  /\ inlen = Len(source)
  /\ incnt = 0
  /\ bitbuf = 0
  /\ bitcnt = 0
  /\ pc = "dconstruct"
  /\ hpos = 0
  /\ hres \in {[length |-> v] : v \in DecodeLengths}

decv ==
  << dest, outlen, out, outcnt, last, type, block_index,
     block_start_bit_position, trace, distcode, lengths, nlen, ndist, index,
     copy, adler32_checksum, ret, destlen, sourcelen, pass, scan,
     checksum_calculated, hsym, inputv, caller >>

(* err = construct(&lencode, length, n) on the vector hres holds.          *)
DecodeConstruct ==
  /\ pc = "dconstruct"
  /\ LET r == construct(NoTable, hres.length, Len(hres.length))
     IN /\ lencode' = Table(r)
        /\ err' = r.ret
        /\ pc' = IF r.ret >= 0 THEN "dskip" ELSE "drejected"
  /\ hres' = NoResult
  /\ UNCHANGED << decv, incnt, bitbuf, bitcnt, hpos >>

(* bits(s, pad): decode() starts anywhere in a byte.                       *)
DecodeSkip ==
  /\ pc = "dskip"
  /\ \E pad \in Pads :
       LET b == bits(S, pad)
       IN /\ hpos' = pad
          /\ SetReader(b)
          /\ pc' = IF b.jmp THEN "dunwound" ELSE "ddecode"
  /\ UNCHANGED << decv, lencode, err, hres >>

(* hres = decode(s, &lencode), the version compiled by default, again and  *)
(* again while it returns a symbol.                                        *)
DecodeCall ==
  /\ pc = "ddecode"
  /\ hres' = decode(S, lencode)
  /\ SetReader(hres')
  /\ pc' = IF hres'.jmp THEN "dunwound"
           ELSE IF hres'.sym < 0 THEN "ddone" ELSE "ddecode"
  /\ UNCHANGED << decv, lencode, err, hpos >>

DecodeNext == DecodeConstruct \/ DecodeSkip \/ DecodeCall

SpecDecode == DecodeInit /\ [][DecodeNext]_vars

(***************************************************************************)
(* decode_gzip_header() (src/gzip_dump.c:90-430): -1, or buffer_index, the *)
(* offset of the first byte after the header.  src[i + 1] is source[i].    *)
(***************************************************************************)
(* strlen(&source[p]): the bytes before the first zero byte.               *)
strlen(src, p) ==
  (CHOOSE i \in p..(Len(src) - 1) :
     src[i + 1] = 0 /\ \A j \in p..(i - 1) : src[j + 1] # 0) - p

(* Lines 396 and 407: string_len = strlen(&source[buffer_index]) + 1, and  *)
(* string_len is an unsigned char (line 97).                               *)
gzip_string_len(src, p) == (strlen(src, p) + 1) % 256

decode_gzip_header(src) ==
  LET file_flags == src[3 + 1]
      extra == ShiftR(file_flags, 2) % 2 = 1
      data_num == src[10 + 1] + 256 * src[11 + 1]
      after_extra == IF extra THEN 12 + data_num ELSE 10
      after_name == IF ShiftR(file_flags, 3) % 2 = 1
                      THEN after_extra + gzip_string_len(src, after_extra)
                      ELSE after_extra
      after_comment == IF ShiftR(file_flags, 4) % 2 = 1
                         THEN after_name + gzip_string_len(src, after_name)
                         ELSE after_name
  IN IF src[0 + 1] # 31 \/ src[1 + 1] # 139 THEN -1
     ELSE IF src[2 + 1] > 8 THEN -1
     ELSE IF ShiftR(file_flags, 5) % 8 # 0 THEN -1
     ELSE IF ShiftR(file_flags, 1) % 2 = 1 THEN after_comment + 2
     ELSE after_comment

(* The files read: the ten fixed bytes with every combination of FHCRC,    *)
(* FEXTRA, FNAME and FCOMMENT, the fields the flags announce, a DEFLATE    *)
(* stream and the trailer; and headers that are rejected.                  *)
GzipFlags == {2 * a + 4 * b + 8 * c + 16 * d : a, b, c, d \in 0..1}

GzipExtraLengths == {0, 3}

GzipNameLengths == {0, 1, 254, 255, 256}

GzipCommentLengths == {0, 2, 255}

GzipFile(flags, xlen, name, comment) ==
  <<31, 139, 8, flags, 0, 0, 0, 0, 0, 3>>
    \o (IF ShiftR(flags, 2) % 2 = 1
          THEN <<xlen, 0>> \o [i \in 1..xlen |-> 0] ELSE << >>)
    \o (IF ShiftR(flags, 3) % 2 = 1
          THEN [i \in 1..name |-> 65] \o <<0>> ELSE << >>)
    \o (IF ShiftR(flags, 4) % 2 = 1
          THEN [i \in 1..comment |-> 66] \o <<0>> ELSE << >>)
    \o (IF ShiftR(flags, 1) % 2 = 1 THEN <<7, 7>> ELSE << >>)
    \o in_fixed_empty \o <<0, 0, 0, 0, 0, 0, 0, 0>>

GzipFiles ==
  {GzipFile(flags, xlen, name, comment) :
     flags \in GzipFlags, xlen \in GzipExtraLengths,
     name \in GzipNameLengths, comment \in GzipCommentLengths}
  \cup { <<30, 139, 8, 0, 0, 0, 0, 0, 0, 3, 3, 0>>,
         <<31, 138, 8, 0, 0, 0, 0, 0, 0, 3, 3, 0>>,
         <<31, 139, 9, 0, 0, 0, 0, 0, 0, 3, 3, 0>>,
         <<31, 139, 8, 32, 0, 0, 0, 0, 0, 3, 3, 0>> }

GzipHeaderInit ==
  /\ HarnessIdle
  /\ caller = "gzip_dump"
  /\ source \in GzipFiles
  /\ inlen = Len(source)
  /\ incnt = 0
  /\ bitbuf = 0
  /\ bitcnt = 0
  /\ pc = "gzheader"
  /\ hpos = 0
  /\ hres = NoResult

(* gzip_dump() calls decode_gzip_header() and keeps the value as ret       *)
(* (src/gzip_dump.c:448).                                                  *)
GzipHeader ==
  /\ pc = "gzheader"
  /\ hpos' = decode_gzip_header(source)
  /\ pc' = "gzheaded"
  /\ UNCHANGED << idlev, inputv, incnt, bitbuf, bitcnt, caller, hres >>

GzipHeaderNext == GzipHeader

SpecGzipHeader == GzipHeaderInit /\ [][GzipHeaderNext]_vars

(***************************************************************************)
(* Reference definitions used by the properties.                           *)
(***************************************************************************)
RECURSIVE SumOver(_, _, _)
SumOver(w, lo, hi) ==
  IF lo > hi THEN 0
  ELSE IF lo = hi THEN w[lo]
  ELSE SumOver(w, lo, (lo + hi) \div 2) + SumOver(w, (lo + hi) \div 2 + 1, hi)

(* Adler-32 of a sequence of bytes: a = 1 + the sum of the bytes, b = the  *)
(* sum of the values a takes after each byte, both modulo 65521.           *)
Adler32Of(data) ==
  LET n == Len(data)
      a == (1 + SumOver(data, 1, n)) % 65521
      b == (n + SumOver([i \in 1..n |-> (n - i + 1) * data[i]], 1, n)) % 65521
  IN Word32(b, a)

(* CRC-32 with the reflected polynomial 0xEDB88320, on 16-bit halves.      *)
Crc32Shift(c) ==
  LET hi == ShiftR(c[1], 1)
      lo == ShiftR(c[2], 1) + (c[1] % 2) * 32768
  IN IF c[2] % 2 = 1 THEN Word32(BitXor(hi, 60856), BitXor(lo, 33568))
     ELSE Word32(hi, lo)

RECURSIVE Crc32Bits(_, _)
Crc32Bits(c, n) == IF n = 0 THEN c ELSE Crc32Bits(Crc32Shift(c), n - 1)

RECURSIVE Crc32Range(_, _, _, _)
Crc32Range(data, lo, hi, c) ==
  IF lo > hi THEN c
  ELSE IF lo = hi
    THEN Crc32Bits(Word32(c[1], BitXor(c[2], data[lo])), 8)
    ELSE LET q == Crc32Range(data, lo, (lo + hi) \div 2, c)
         IN IF q[1] >= 0 THEN Crc32Range(data, (lo + hi) \div 2 + 1, hi, q)
            ELSE q

Crc32Of(data) ==
  LET c == Crc32Range(data, 1, Len(data), Word32(65535, 65535))
  IN Word32(65535 - c[1], 65535 - c[2])

(* The four bytes of a 32-bit value, least significant first.              *)
LittleEndian(val) ==
  << val[2] % 256, ShiftR(val[2], 8), val[1] % 256, ShiftR(val[1], 8) >>

(* The codes of L bits a vector of code lengths leaves unused: 2^L less    *)
(* 2^(L - l) for every symbol of length l in 1..L.                         *)
LeftAfter(v, L) ==
  Pow2(L) - SumOver([i \in DOMAIN v |->
                       IF v[i] >= 1 /\ v[i] <= L THEN Pow2(L - v[i]) ELSE 0],
                    1, Len(v))

OverSubscribed(v) == \E L \in 1..MAXBITS : LeftAfter(v, L) < 0

AllZero(v) == \A i \in DOMAIN v : v[i] = 0

Incomplete(v) == ~OverSubscribed(v) /\ LeftAfter(v, MAXBITS) > 0

(* Exactly one symbol has a code, and the code has one bit.                *)
SingleOneBitCode(v) ==
  /\ Cardinality({i \in DOMAIN v : v[i] # 0}) = 1
  /\ \A i \in DOMAIN v : v[i] <= 1

(* The literal/length lengths and the distance lengths dynamic() read.     *)
LitLenLengths == SubSeq(lengths, 1, nlen)
DistLengths == SubSeq(lengths, nlen + 1, nlen + ndist)

(* dynamic() has read all the lengths and symbol 256 has one.              *)
TablesDue == pc = "dynlen" /\ index >= nlen + ndist /\ lengths[257] # 0

(* Bit k of the input, counted from 0: bit k % 8 of byte k \div 8, the     *)
(* least significant bit of a byte being its bit 0.                        *)
StreamBit(k) == ShiftR(source[k \div 8 + 1], k % 8) % 2

(* The n bits from bit pos on as a number, the first of them as bit 0.     *)
StreamBits(pos, n) ==
  SumOver([i \in 1..n |-> StreamBit(pos + i - 1) * Pow2(i - 1)], 1, n)

(***************************************************************************)
(* A reference DEFLATE encoder after RFC 1951, written from the format     *)
(* and not from the decoder: a tokenisation of the data into literals and  *)
(* matches, laid out as stored, fixed or dynamic blocks.                   *)
(***************************************************************************)
MaxDataLen == 4

DataAlphabet == {97, 255}

(* Data long enough for lengths and distances that carry extra bits.       *)
DataLong ==
  { [i \in 1..16 |-> 97],
    [i \in 1..14 |-> IF i % 7 = 0 THEN 255 ELSE 97] }

Data ==
  UNION {[1..n -> DataAlphabet] : n \in 0..MaxDataLen} \cup DataLong

Lit(b) == [len |-> 0, dist |-> 0, lit |-> b]
Match(L, D) == [len |-> L, dist |-> D, lit |-> 0]

(* The matches of at least 3 bytes that copy the data at position k from   *)
(* D bytes back (RFC 1951 3.2.5); a match may overlap what it writes.      *)
MatchesAt(B, k) ==
  {m \in (3..Min(258, Len(B) - k + 1)) \X (1..(k - 1)) :
     \A i \in 0..(m[1] - 1) : B[k + i] = B[k + i - m[2]]}

RECURSIVE ParsesFrom(_, _)
ParsesFrom(B, k) ==
  IF k > Len(B) THEN {<< >>}
  ELSE {<<Lit(B[k])>> \o p : p \in ParsesFrom(B, k + 1)}
       \cup UNION {{<<Match(m[1], m[2])>> \o p : p \in ParsesFrom(B, k + m[1])}
                     : m \in MatchesAt(B, k)}

(* The longest match at the nearest distance wherever there is one.        *)
RECURSIVE GreedyFrom(_, _)
GreedyFrom(B, k) ==
  IF k > Len(B) THEN << >>
  ELSE IF MatchesAt(B, k) = {} THEN <<Lit(B[k])>> \o GreedyFrom(B, k + 1)
  ELSE LET m == CHOOSE x \in MatchesAt(B, k) :
                  \A y \in MatchesAt(B, k) :
                    x[1] > y[1] \/ (x[1] = y[1] /\ x[2] <= y[2])
       IN <<Match(m[1], m[2])>> \o GreedyFrom(B, k + m[1])

Literals(B) == [i \in 1..Len(B) |-> Lit(B[i])]

Tokenisations(B) ==
  IF Len(B) <= MaxDataLen THEN ParsesFrom(B, 1)
  ELSE {Literals(B), GreedyFrom(B, 1)}

RECURSIVE Log2Floor(_)
Log2Floor(x) == IF x <= 1 THEN 0 ELSE 1 + Log2Floor(x \div 2)

(* The length codes 257..285 and the distance codes 0..29 with their extra *)
(* bits (RFC 1951 3.2.5): [sym, number of extra bits, value of them].      *)
RefLenSym(L) ==
  IF L = 258 THEN [sym |-> 285, n |-> 0, val |-> 0]
  ELSE IF L <= 10 THEN [sym |-> 254 + L, n |-> 0, val |-> 0]
  ELSE LET x == L - 3
           e == Log2Floor(x) - 2
       IN [sym |-> 257 + 4 * e + ShiftR(x, e), n |-> e, val |-> x % Pow2(e)]

RefDistSym(D) ==
  IF D <= 4 THEN [sym |-> D - 1, n |-> 0, val |-> 0]
  ELSE LET y == D - 1
           e == Log2Floor(y) - 1
       IN [sym |-> 2 * e + ShiftR(y, e), n |-> e, val |-> y % Pow2(e)]

(* The canonical code of a symbol under a vector of code lengths           *)
(* (RFC 1951 3.2.2): the codes of one length are consecutive in the order  *)
(* of the symbols, and the first code of length l is twice the code after  *)
(* the last of length l - 1.                                               *)
RefCount(v, l) == Cardinality({i \in DOMAIN v : v[i] = l})

RECURSIVE RefFirst(_, _)
RefFirst(v, l) ==
  IF l <= 1 THEN 0 ELSE 2 * (RefFirst(v, l - 1) + RefCount(v, l - 1))

RefCode(v, sym) ==
  RefFirst(v, v[sym + 1])
    + Cardinality({i \in 1..sym : v[i] = v[sym + 1]})

(* Huffman codes go most significant bit first, every other field least    *)
(* significant bit first (RFC 1951 3.1.1).                                 *)
RefSymbolBits(v, sym) ==
  [t \in 1..v[sym + 1] |-> ShiftR(RefCode(v, sym), v[sym + 1] - t) % 2]

LsbBits(val, n) == [t \in 1..n |-> ShiftR(val, t - 1) % 2]

RECURSIVE FlattenRange(_, _, _)
FlattenRange(ss, lo, hi) ==
  IF lo > hi THEN << >>
  ELSE IF lo = hi THEN ss[lo]
  ELSE FlattenRange(ss, lo, (lo + hi) \div 2)
         \o FlattenRange(ss, (lo + hi) \div 2 + 1, hi)

Flatten(ss) == FlattenRange(ss, 1, Len(ss))

(* The bits of the tokens and of the end-of-block symbol under a           *)
(* literal/length code ll and a distance code dl.                          *)
TokenBits(ll, dl, tok) ==
  IF tok.len = 0 THEN RefSymbolBits(ll, tok.lit)
  ELSE LET l == RefLenSym(tok.len)
           d == RefDistSym(tok.dist)
       IN RefSymbolBits(ll, l.sym) \o LsbBits(l.val, l.n)
            \o RefSymbolBits(dl, d.sym) \o LsbBits(d.val, d.n)

TokensBits(ll, dl, toks) ==
  Flatten([i \in 1..Len(toks) |-> TokenBits(ll, dl, toks[i])])
    \o RefSymbolBits(ll, 256)

(* The fixed codes (RFC 1951 3.2.6).                                       *)
RefFixedLitLen ==
  [i \in 1..288 |-> IF i <= 144 THEN 8 ELSE IF i <= 256 THEN 9
                    ELSE IF i <= 280 THEN 7 ELSE 8]
RefFixedDist == [i \in 1..30 |-> 5]

(* A dynamic block (RFC 1951 3.2.7).  The symbols the tokens use get a     *)
(* complete code: in the order of the symbols the lengths 1, 2, ..., k - 1,*)
(* k - 1; a single symbol gets one bit.                                    *)
UsedLitLen(toks) ==
  {256} \cup {toks[i].lit : i \in {j \in DOMAIN toks : toks[j].len = 0}}
        \cup {RefLenSym(toks[i].len).sym :
                i \in {j \in DOMAIN toks : toks[j].len # 0}}

UsedDist(toks) ==
  {RefDistSym(toks[i].dist).sym : i \in {j \in DOMAIN toks : toks[j].len # 0}}

Rank(U, s) == Cardinality({u \in U : u <= s})

Largest(U) == CHOOSE u \in U : \A w \in U : w <= u

UnaryLengths(U) ==
  [i \in 1..(Largest(U) + 1) |->
     IF (i - 1) \notin U THEN 0
     ELSE IF Cardinality(U) = 1 THEN 1
     ELSE Min(Rank(U, i - 1), Cardinality(U) - 1)]

(* A complete code of lengths m - 1 and m for k >= 2 symbols, 2^m >= k.    *)
BalancedLengths(U, n) ==
  LET k == Cardinality(U)
      m == Log2Floor(2 * k - 1)
  IN [i \in 1..n |->
        IF (i - 1) \notin U THEN 0
        ELSE IF k = 1 THEN 1
        ELSE IF Rank(U, i - 1) <= Pow2(m) - k THEN m - 1
        ELSE m]

DynLitLen(toks) == UnaryLengths(UsedLitLen(toks))

(* Without a match one distance code of length 0 is sent.                  *)
DynDist(toks) ==
  IF UsedDist(toks) = {} THEN <<0>> ELSE UnaryLengths(UsedDist(toks))

(* The code lengths as symbols 0..18: 18 for 11..138 zeros, 17 for 3..10   *)
(* zeros, 16 for 3..6 repeats of the length before, else the length.       *)
RunLength(cv, i) ==
  LET stop == {j \in (i + 1)..Len(cv) : cv[j] # cv[i]}
  IN IF stop = {} THEN Len(cv) - i + 1
     ELSE (CHOOSE j \in stop : \A k \in stop : j <= k) - i

RECURSIVE CodedFrom(_, _)
CodedFrom(cv, i) ==
  IF i > Len(cv) THEN << >>
  ELSE LET r == RunLength(cv, i)
       IN IF cv[i] = 0 /\ r >= 11
            THEN <<[sym |-> 18, n |-> 7, val |-> Min(r, 138) - 11]>>
                   \o CodedFrom(cv, i + Min(r, 138))
          ELSE IF cv[i] = 0 /\ r >= 3
            THEN <<[sym |-> 17, n |-> 3, val |-> r - 3]>>
                   \o CodedFrom(cv, i + r)
          ELSE IF cv[i] # 0 /\ i > 1 /\ cv[i - 1] = cv[i] /\ r >= 3
            THEN <<[sym |-> 16, n |-> 2, val |-> Min(r, 6) - 3]>>
                   \o CodedFrom(cv, i + Min(r, 6))
          ELSE <<[sym |-> cv[i], n |-> 0, val |-> 0]>> \o CodedFrom(cv, i + 1)

(* The order in which the lengths of the code length code are sent.        *)
RefOrder ==
  <<16, 17, 18, 0, 8, 7, 9, 6, 10, 5, 11, 4, 12, 3, 13, 2, 14, 1, 15>>

DynamicBits(toks) ==
  LET ll == DynLitLen(toks)
      dl == DynDist(toks)
      coded == CodedFrom(ll \o dl, 1)
      cl == BalancedLengths({coded[i].sym : i \in DOMAIN coded}, 19)
      sent == {j \in 1..19 : cl[RefOrder[j] + 1] # 0}
      ncode == IF Largest(sent) < 4 THEN 4 ELSE Largest(sent)
  IN LsbBits(Len(ll) - 257, 5) \o LsbBits(Len(dl) - 1, 5)
       \o LsbBits(ncode - 4, 4)
       \o Flatten([j \in 1..ncode |-> LsbBits(cl[RefOrder[j] + 1], 3)])
       \o Flatten([i \in DOMAIN coded |->
                     RefSymbolBits(cl, coded[i].sym)
                       \o LsbBits(coded[i].val, coded[i].n)])
       \o TokensBits(ll, dl, toks)

(* A stored block (RFC 1951 3.2.4) of literals, from bit p of the stream.  *)
StoredBits(toks, p) ==
  [i \in 1..((8 - (p % 8)) % 8) |-> 0]
    \o LsbBits(Len(toks), 16) \o LsbBits(65535 - Len(toks), 16)
    \o Flatten([i \in DOMAIN toks |-> LsbBits(toks[i].lit, 8)])

BlockBits(blk, final, p) ==
  IF blk.type = "stored" THEN <<final, 0, 0>> \o StoredBits(blk.toks, p + 3)
  ELSE IF blk.type = "fixed"
    THEN <<final, 1, 0>> \o TokensBits(RefFixedLitLen, RefFixedDist, blk.toks)
  ELSE <<final, 0, 1>> \o DynamicBits(blk.toks)

RECURSIVE EncodeFrom(_, _, _)
EncodeFrom(blocks, i, acc) ==
  IF i > Len(blocks) THEN acc
  ELSE EncodeFrom(blocks, i + 1,
                  acc \o BlockBits(blocks[i],
                                   IF i = Len(blocks) THEN 1 ELSE 0,
                                   Len(acc)))

(* The last byte is completed with zero bits.                              *)
Deflate(blocks) == PackBits(EncodeFrom(blocks, 1, << >>), 0)

OnlyLiterals(toks) == \A i \in DOMAIN toks : toks[i].len = 0

BlockTypes(toks) ==
  {"fixed", "dynamic"} \cup (IF OnlyLiterals(toks) THEN {"stored"} ELSE {})

(* The tokens as one block of any type, or as two blocks of different      *)
(* types cut in the middle; a match of the second block may reach into the *)
(* first.                                                                  *)
Layouts(toks) ==
  LET h == (Len(toks) + 1) \div 2
      a == SubSeq(toks, 1, h)
      b == SubSeq(toks, h + 1, Len(toks))
  IN {<<[type |-> t, toks |-> toks]>> : t \in BlockTypes(toks)}
     \cup (IF Len(toks) > MaxDataLen THEN {}
           ELSE {<<[type |-> t[1], toks |-> a], [type |-> t[2], toks |-> b]>> :
                   t \in {u \in BlockTypes(a) \X BlockTypes(b) : u[1] # u[2]}})

Encodings(B) == UNION {{Deflate(l) : l \in Layouts(t)} : t \in Tokenisations(B)}

(***************************************************************************)
(* The round trip: puff() with a buffer of the size of the data            *)
(* (src/puff.c:1358-1389) on a reference encoding of the data, alone or    *)
(* followed by one more byte as the trailer of an envelope is.  hres keeps *)
(* the data.                                                               *)
(***************************************************************************)
Trailers == {<< >>, <<165>>}

RoundTripInit ==
  /\ \E B \in Data : \E c \in Encodings(B) : \E t \in Trailers :
       /\ PuffEntry(c \o t, "BUF", Len(B))
       /\ hres = [data |-> B]
  /\ caller = "puff"
  /\ adler32_checksum = Word32(0, 1)
  /\ pass = 1
  /\ scan = NoScan
  /\ checksum_calculated = << >>
  /\ hsym = 0
  /\ hpos = 0

(* The steps of puff() on such a stream; no block of it has type 3.        *)
RoundTripNext ==
  \/ PuffBlockHeader
  \/ PuffStored
  \/ PuffFixed
  \/ PuffCodes
  \/ PuffDynamicHeader
  \/ PuffDynamicLength
  \/ PuffDynamicTables
  \/ PuffBlockEnd
  \/ PuffReturn

SpecRoundTrip == RoundTripInit /\ [][RoundTripNext]_vars

(***************************************************************************)
(* The LZ4 frame walker (src/lz4_dump.c).  source is the whole frame; hres *)
(* is what decode_lz4_header() leaves (its return value and the globals    *)
(* blockChecksum_g and contentChecksum_g), hpos is byte_count of           *)
(* decode_lz4_block() and trace its block records.                         *)
(***************************************************************************)
(* decode_lz4_header() (src/lz4_dump.c:92-304) on the FLG byte.            *)
decode_lz4_header(flags) ==
  LET dictId == flags % 2
      c_checksum == ShiftR(flags, 2) % 2
      c_size == ShiftR(flags, 3) % 2
      b_checksum == ShiftR(flags, 4) % 2
      c_size_size == IF c_size = 1 THEN 8 ELSE 0
      d_id_size == IF dictId = 1 THEN 4 ELSE 0
  IN [ret |-> c_size_size + d_id_size + 7,
      blockChecksum_g |-> b_checksum,
      contentChecksum_g |-> c_checksum]

(* The unsigned int read at source + p on a little-endian machine, as the  *)
(* high bit and the low 31 bits (lines 325-327).                           *)
lz4_word(p) ==
  [compressed_flag |-> source[p + 4] \div 128,
   block_size |-> source[p + 1] + 256 * source[p + 2] + 65536 * source[p + 3]
                    + 16777216 * (source[p + 4] % 128)]

lz4_word_is_zero(p) ==
  lz4_word(p).compressed_flag = 0 /\ lz4_word(p).block_size = 0

(* The frames walked: a header, up to Lz4MaxBlocks blocks of up to         *)
(* Lz4MaxBlockSize bytes, each followed by 4 bytes of checksum when FLG    *)
(* says so, the EndMark, and the content checksum when FLG says so.        *)
Lz4MaxBlocks == 2
Lz4MaxBlockSize == 2

Lz4Magic == <<4, 34, 77, 24>>

Lz4Flags == {64, 68, 72, 80, 89}

Lz4Blocks ==
  [size : 0..Lz4MaxBlockSize, flag : 0..1] \ {[size |-> 0, flag |-> 0]}

Lz4BlockBytes(b, flags) ==
  <<b.size, 0, 0, 128 * b.flag>> \o [i \in 1..b.size |-> 7]
    \o (IF ShiftR(flags, 4) % 2 = 1 THEN <<9, 9, 9, 9>> ELSE << >>)

Lz4Frame(flags, blocks) ==
  Lz4Magic \o <<flags, 64>>
    \o [i \in 1..(decode_lz4_header(flags).ret - 7) |-> 1] \o <<0>>
    \o Flatten([i \in DOMAIN blocks |-> Lz4BlockBytes(blocks[i], flags)])
    \o <<0, 0, 0, 0>>
    \o (IF ShiftR(flags, 2) % 2 = 1 THEN <<5, 5, 5, 5>> ELSE << >>)

Lz4Frames ==
  {Lz4Frame(flags, blocks) :
     flags \in Lz4Flags,
     blocks \in UNION {[1..n -> Lz4Blocks] : n \in 0..Lz4MaxBlocks}}

lz4v ==
  << dest, outlen, out, outcnt, last, type, err, block_index,
     block_start_bit_position, lencode, distcode, lengths, nlen, ndist,
     index, copy, adler32_checksum, destlen, sourcelen, pass, scan,
     checksum_calculated, hsym, inputv, incnt, bitbuf, bitcnt, caller >>

Lz4Init ==
  /\ HarnessIdle
  /\ caller = "lz4_dump"
  /\ source \in Lz4Frames
  /\ inlen = Len(source)
  /\ incnt = 0
  /\ bitbuf = 0
  /\ bitcnt = 0
  /\ pc = "lz4header"
  /\ hpos = 0
  /\ hres = NoResult

(* lz4_dump() calls decode_lz4_header() (src/lz4_dump.c:383-386).          *)
Lz4Header ==
  /\ pc = "lz4header"
  /\ hres' = decode_lz4_header(source[5])
  /\ IF hres'.ret = 0
       THEN /\ ret' = -1
            /\ pc' = "exit"
       ELSE /\ UNCHANGED ret
            /\ pc' = "lz4block"
  /\ UNCHANGED << lz4v, trace, hpos >>

(* Lines 311-317 of decode_lz4_block(): return 0 at once on an EndMark.    *)
Lz4BlockEntry ==
  /\ pc = "lz4block"
  /\ hpos' = 0
  /\ pc' = IF lz4_word_is_zero(hres.ret) THEN "lz4eof" ELSE "lz4loop"
  /\ UNCHANGED << lz4v, trace, ret, hres >>

(* Lines 322-364: one turn of the loop, one block record.                  *)
Lz4Block ==
  /\ pc = "lz4loop"
  /\ LET w == lz4_word(hres.ret + hpos)
         byte_count == hpos + (IF hres.blockChecksum_g = 1 THEN 4 ELSE 0)
                         + w.block_size + 4
     IN /\ trace' = Append(trace,
                      [BLOCK_BIT_POSITION |-> hpos * 8,
                       BLOCK_BIT_SIZE |-> (w.block_size + 4) * 8,
                       COMPRESSED_FLAG |-> IF w.compressed_flag = 1
                                             THEN "UNCOMPRESSED"
                                             ELSE "COMPRESSED"])
        /\ hpos' = byte_count
        /\ pc' = IF lz4_word_is_zero(hres.ret + byte_count) THEN "lz4eof"
                 ELSE "lz4loop"
  /\ UNCHANGED << lz4v, ret, hres >>

(* Lines 390-412: the EndMark is printed and ret, which lz4_dump() never   *)
(* assigns (line 376), is returned: any value.                             *)
Lz4Return ==
  /\ pc = "lz4eof"
  /\ ret' \in {-1, 0, 1}
  /\ pc' = "exit"
  /\ UNCHANGED << lz4v, trace, hpos, hres >>

Lz4Next == Lz4Header \/ Lz4BlockEntry \/ Lz4Block \/ Lz4Return

SpecLz4 == Lz4Init /\ [][Lz4Next]_vars

(***************************************************************************)
(* Properties.                                                             *)
(***************************************************************************)
Returned == pc = "returned"

(* C1: puff() returns 0 only if a block whose BFINAL bit is 1 has been     *)
(* decoded; an input that ends exactly at the end of a non-final block is  *)
(* not reported as success.                                                *)
C1_SuccessOnlyAfterFinalBlock ==
  (Returned /\ ret = 0) => \E i \in DOMAIN trace : trace[i].BFINAL = 1

(* C2: whenever a block decoder yields a negative error code, puff() stops *)
(* decoding and returns exactly that code, wherever the failing block      *)
(* ends in the input.                                                      *)
C2_NegativeCodeReturnedAsIs ==
  [][/\ (pc = "blockend" /\ err < 0) => (pc' = "finish" /\ err' = err)
     /\ (pc = "finish" /\ err < 0) => (Returned' /\ ret' = err)]_vars

(* C3: with an output buffer of capacity outlen, no byte is stored at an   *)
(* index >= outlen, and outcnt <= outlen in every reachable state.         *)
C3_WritesWithinCapacity ==
  dest = "BUF" => (outcnt <= outlen /\ Len(out) <= outlen)

(* C4: when the scan with dest = NIL has returned 0 and *destlen = N, the  *)
(* call on the same input with a buffer of capacity N returns 0, produces  *)
(* exactly N bytes and consumes the same number of input bytes.            *)
C4_DecodeMatchesScan ==
  (Returned /\ pass = 2) =>
     /\ scan.ret = 0
     /\ outlen = scan.destlen
     /\ ret = 0
     /\ destlen = scan.destlen
     /\ Len(out) = scan.destlen
     /\ sourcelen = scan.sourcelen

C4_Witness ==
  /\ Returned
  /\ pass = 2
  /\ source = in_mix_stored_fixed_dyn
  /\ Len(out) = 9

(* C5: for a vector of code lengths that construct() accepts (return       *)
(* value >= 0) and a symbol of nonzero length, decode() on the bits of the *)
(* symbol's code, as get_encoded_val_from_huffman_table() gives it, most   *)
(* significant bit first, returns the symbol and advances the bit position *)
(* by exactly the symbol's length.                                         *)
C5_DecodeInvertsCanonicalCode ==
  pc = "hdecoded" =>
     /\ err >= 0
     /\ lengths[hsym + 1] # 0
     /\ ~hres.jmp
     /\ hres.sym = hsym
     /\ get_input_bit_position(S) = hpos + lengths[hsym + 1]

C5_Witness ==
  /\ pc = "hdecoded"
  /\ lengths = << 2, 0, 3, 3 >>
  /\ hsym = 3
  /\ hpos = 7
  /\ hres.sym = 3

(* C6: after a back-reference copy of len bytes from dist bytes back, each *)
(* new byte equals the byte dist positions before it, so that a copy       *)
(* longer than its distance repeats the last dist bytes periodically.      *)
C6_CopyIsPeriodic ==
  copy # NoCopy =>
     LET start == outcnt - copy.len
     IN /\ Len(out) = outcnt
        /\ copy.dist <= start
        /\ \A k \in (start + 1)..outcnt :
             /\ out[k] = out[k - copy.dist]
             /\ out[k] = out[start - copy.dist + 1
                               + ((k - start - 1) % copy.dist)]

C6_Witness ==
  /\ copy = [len |-> 12, dist |-> 4]
  /\ out = << 97, 98, 99, 100, 97, 98, 99, 100, 97, 98, 99, 100, 97, 98, 99,
              100 >>

(* C7: after a successful decode into a buffer, with the accumulator at 1  *)
(* on entry, adler32_checksum is (b << 16) | a for the Adler-32 sums a and *)
(* b of exactly the bytes written, in output order.                        *)
C7_ChecksumIsAdler32OfOutput ==
  (Returned /\ dest = "BUF" /\ ret = 0) => adler32_checksum = Adler32Of(out)

C7_Witness ==
  /\ Returned
  /\ dest = "BUF"
  /\ ret = 0
  /\ source = in_mix_stored_fixed_dyn
  /\ Len(out) = 9
  /\ adler32_checksum = Adler32Of(out)

(* C8: the CHECKSUM_CALCULATED that gzip_dump emits in the decoding pass   *)
(* is the CRC-32 of the output, in the byte order of the trailer, so that  *)
(* it equals the first four trailer bytes of a valid file.                 *)
C8_GzipChecksumIsCrc32 ==
  (caller = "gzip_dump" /\ pc = "exit" /\ checksum_calculated # << >>) =>
     checksum_calculated = LittleEndian(Crc32Of(out))

(* C9: in the trace, each block record's BLOCK_BIT_POSITION is the         *)
(* previous record's BLOCK_BIT_POSITION plus its BLOCK_BIT_SIZE.           *)
C9_BlockRecordsChain ==
  \A i \in 1..(Len(trace) - 1) :
     trace[i + 1].BLOCK_BIT_POSITION =
       trace[i].BLOCK_BIT_POSITION + trace[i].BLOCK_BIT_SIZE

C9_Witness ==
  /\ Returned
  /\ Len(trace) = 3
  /\ trace[1].BTYPE = 0
  /\ trace[2].BTYPE = 1
  /\ trace[3].BTYPE = 2
  /\ trace[2].BLOCK_BIT_POSITION = 48
  /\ trace[3].BLOCK_BIT_POSITION = 78
  /\ trace[3].BLOCK_BIT_SIZE = 109

(* C10: whenever bits() or decode() needs a bit and no unread input byte   *)
(* remains, in a block header, a dynamic table description, a symbol or    *)
(* extra bits, control unwinds to puff(), no further block is decoded, and *)
(* puff() returns 2.                                                       *)
OutOfInput ==
  \/ pc = "block" /\ (bits(S, 1).jmp \/ bits(bits(S, 1), 2).jmp)
  \/ pc = "codes" /\ codes_step(S).kind = "jmp"
  \/ pc = "dynamic" /\ dynamic_header(S).kind = "jmp"
  \/ pc = "dynlen" /\ index < nlen + ndist
       /\ dynamic_length_step(S).kind = "jmp"

C10_EndOfInputUnwinds ==
  [][/\ OutOfInput =>
          (pc' = "finish" /\ err' = 2 /\ block_index' <= block_index + 1)
     /\ (pc = "finish" /\ err = 2) =>
          (Returned' /\ ret' = 2 /\ UNCHANGED << block_index, trace >>)]_vars

C10_Witness ==
  /\ Returned
  /\ ret = 2
  /\ Len(trace) = 3
  /\ trace[3].BTYPE = 2
  /\ index > 0
  /\ index < nlen + ndist

(* C11: a positive return (1 or 2) leaves *destlen and *sourcelen as the   *)
(* caller passed them; a return of zero or less sets *destlen to the       *)
(* number of output bytes produced and *sourcelen to the number of input   *)
(* bytes consumed.                                                         *)
C11_LengthsUpdatedUnlessPositive ==
  Returned =>
    IF ret > 0
    THEN destlen = outlen /\ sourcelen = inlen
    ELSE /\ destlen = outcnt
         /\ sourcelen = incnt
         /\ dest = "BUF" => destlen = Len(out)

C11_Witness ==
  /\ Returned
  /\ ret > 0
  /\ incnt > 0 /\ incnt # sourcelen
  /\ outcnt > 0 /\ outcnt # destlen

(* C12: when decoding stops with return code 2 because the input ran out   *)
(* inside a block, the record of that block has BLOCK_BIT_POSITION and no  *)
(* BLOCK_BIT_SIZE, whatever the type of the block (stored, fixed or        *)
(* dynamic).                                                               *)
C12_TruncatedBlockHasNoSize ==
  (Returned /\ ret = 2 /\ trace # << >>) =>
    /\ trace[Len(trace)].BLOCK_BIT_POSITION # NoField
    /\ trace[Len(trace)].BLOCK_BIT_SIZE = NoField

(* C13: decoding the zlib stream 78 9C 03 00 00 00 00 01 succeeds with     *)
(* empty output and the Adler-32 bytes 00 00 00 01, and its trace has      *)
(* exactly one block.  As the claim states it, the block is a stored one:  *)
(* BTYPE = 0, LEN = 0, NLEN = 65535.                                       *)
C13_EmptyZlibStreamIsStored ==
  (caller = "zlib_dump" /\ source = in_zlib_empty_fixed /\ pc = "exit") =>
    /\ ret = 0
    /\ destlen = 0 /\ out = << >>
    /\ checksum_calculated = << 0, 0, 0, 1 >>
    /\ Len(trace) = 1
    /\ trace[1].BTYPE = 0
    /\ trace[1].LEN = 0
    /\ trace[1].NLEN = 65535

(* C13, amended: the same stream decodes with empty output, the Adler-32   *)
(* bytes 00 00 00 01 and exactly one block, and that block is a fixed      *)
(* Huffman block (BTYPE = 1) of 10 bits that has no LEN and no NLEN field; *)
(* the four bytes left after it are the checksum in the file.              *)
C13_EmptyZlibStreamIsFixed ==
  (caller = "zlib_dump" /\ source = in_zlib_empty_fixed /\ pc = "exit") =>
    /\ ret = 0
    /\ destlen = 0 /\ out = << >>
    /\ checksum_calculated = << 0, 0, 0, 1 >>
    /\ SubSeq(source, sourcelen + 1, inlen) = << 0, 0, 0, 1 >>
    /\ Len(trace) = 1
    /\ trace[1].BFINAL = 1
    /\ trace[1].BTYPE = 1
    /\ trace[1].LEN = NoField
    /\ trace[1].NLEN = NoField
    /\ trace[1].BLOCK_BIT_SIZE = 10

C13_Witness ==
  /\ caller = "zlib_dump"
  /\ source = in_zlib_empty_fixed
  /\ pc = "exit"
  /\ pass = 2
  /\ block_index = 1

(* C14: construct() classifies a vector of code lengths by the recurrence  *)
(* left = 2 * left - count[L], L = 1..15, from left = 1: it returns a      *)
(* negative value if left becomes negative at some L, a positive value if  *)
(* the final left is positive, and 0 if and only if the final left is 0.   *)
(* As the claim states it, a vector of zeros only is reported incomplete   *)
(* (positive).                                                             *)
C14_ConstructClassifiesByLeft ==
  (caller = "construct" /\ pc # "hconstruct") =>
    /\ err < 0 <=> OverSubscribed(lengths)
    /\ err > 0 <=> (~OverSubscribed(lengths)
                       /\ LeftAfter(lengths, MAXBITS) > 0)
    /\ err = 0 <=> LeftAfter(lengths, MAXBITS) = 0
    /\ AllZero(lengths) => err > 0

(* C14, amended: the same classification for every vector that gives some  *)
(* symbol a nonzero length; a vector of zeros only is reported complete    *)
(* (0), without the recurrence being run.                                  *)
C14_ConstructClassifiesCodedByLeft ==
  (caller = "construct" /\ pc # "hconstruct") =>
    IF AllZero(lengths)
    THEN err = 0
    ELSE /\ err < 0 <=> OverSubscribed(lengths)
         /\ err > 0 <=> (~OverSubscribed(lengths)
                            /\ LeftAfter(lengths, MAXBITS) > 0)
         /\ err = 0 <=> LeftAfter(lengths, MAXBITS) = 0

C14_Witness ==
  /\ caller = "construct"
  /\ pc = "hrejected"
  /\ Len(lengths) > 1
  /\ AllZero(lengths)
  /\ err = 0

(* C15: in a dynamic block whose end-of-block symbol has a code, an        *)
(* incomplete literal/length or distance code is accepted only when        *)
(* exactly one symbol has a nonzero length and that length is 1; every     *)
(* other incomplete or over-subscribed literal/length code makes dynamic() *)
(* return -7, and every such distance code -8, before any symbol of the    *)
(* block is decoded.  Stated with incomplete as the recurrence of          *)
(* construct() defines it (final left > 0), as the claim has it.           *)
C15_IncompleteOnlySingleOneBit ==
  [][TablesDue =>
       LET bad(v) == OverSubscribed(v)
                       \/ (Incomplete(v) /\ ~SingleOneBitCode(v))
       IN /\ UNCHANGED << incnt, bitbuf, bitcnt, out, outcnt >>
          /\ IF bad(LitLenLengths) THEN pc' = "blockend" /\ err' = -7
             ELSE IF bad(DistLengths) THEN pc' = "blockend" /\ err' = -8
             ELSE pc' = "codes" /\ err' = err]_vars

(* C15, amended: the same, except that a distance code in which no symbol  *)
(* has a nonzero length is accepted too.                                   *)
C15_IncompleteOnlySingleOneBitOrEmpty ==
  [][TablesDue =>
       LET bad(v) == OverSubscribed(v)
                       \/ (Incomplete(v) /\ ~SingleOneBitCode(v)
                             /\ ~AllZero(v))
       IN /\ UNCHANGED << incnt, bitbuf, bitcnt, out, outcnt >>
          /\ IF bad(LitLenLengths) THEN pc' = "blockend" /\ err' = -7
             ELSE IF bad(DistLengths) THEN pc' = "blockend" /\ err' = -8
             ELSE pc' = "codes" /\ err' = err]_vars

C15_Witness ==
  /\ pc = "codes"
  /\ type = 2
  /\ outcnt = 0
  /\ Incomplete(LitLenLengths) /\ SingleOneBitCode(LitLenLengths)
  /\ Incomplete(DistLengths) /\ SingleOneBitCode(DistLengths)

(* C16: the code of the 19 code length symbols must be complete: whenever  *)
(* it is not (over-subscribed, incomplete, or with no symbol at all)       *)
(* dynamic() returns -4 before it decodes any code length symbol.          *)
C16_LengthsCodeMustBeComplete ==
  [][(pc = "dynamic" /\ pc' # "finish"
        /\ nlen' <= MAXLCODES /\ ndist' <= MAXDCODES) =>
       LET cl == SubSeq(lengths', 1, 19)
       IN /\ index' = 0
          /\ \E ncode \in 4..19 :
               get_input_bit_position(S)' =
                 get_input_bit_position(S) + 14 + 3 * ncode
          /\ IF OverSubscribed(cl) \/ LeftAfter(cl, MAXBITS) # 0
               THEN pc' = "blockend" /\ err' = -4
               ELSE pc' = "dynlen" /\ err' = err]_vars

(* C16, amended: whenever the code gives some symbol a length and is not   *)
(* complete (over-subscribed or incomplete) dynamic() returns -4 before it *)
(* decodes any code length symbol; a code with no symbol at all passes     *)
(* this test, as a complete one does.                                      *)
C16_CodedLengthsCodeMustBeComplete ==
  [][(pc = "dynamic" /\ pc' # "finish"
        /\ nlen' <= MAXLCODES /\ ndist' <= MAXDCODES) =>
       LET cl == SubSeq(lengths', 1, 19)
       IN /\ index' = 0
          /\ \E ncode \in 4..19 :
               get_input_bit_position(S)' =
                 get_input_bit_position(S) + 14 + 3 * ncode
          /\ IF ~AllZero(cl)
                  /\ (OverSubscribed(cl) \/ LeftAfter(cl, MAXBITS) # 0)
               THEN pc' = "blockend" /\ err' = -4
               ELSE pc' = "dynlen" /\ err' = err]_vars

C16_Witness ==
  /\ pc = "blockend"
  /\ type = 2
  /\ err = -4
  /\ index = 0
  /\ Incomplete(SubSeq(lengths, 1, 19))
  /\ ~AllZero(SubSeq(lengths, 1, 19))

(* C17: when dynamic() decodes the code lengths, symbol 16 at index 0      *)
(* makes it return -5, and a repeat (16, 17 or 18) that would run past     *)
(* HLIT + HDIST lengths makes it return -6; in neither case is a length    *)
(* written, and no step writes a length at index HLIT + HDIST or beyond.   *)
C17_RepeatErrors ==
  [][(pc = "dynlen" /\ index < nlen + ndist) =>
       LET d == decode(S, lencode)
           b == bits(d, IF d.sym = 16 THEN 2 ELSE IF d.sym = 17 THEN 3 ELSE 7)
           repeat_times == (IF d.sym = 18 THEN 11 ELSE 3) + b.val
           nofirst == ~d.jmp /\ d.sym = 16 /\ index = 0
           overrun == /\ ~d.jmp /\ d.sym \in 16..18 /\ ~nofirst
                      /\ ~b.jmp /\ index + repeat_times > nlen + ndist
       IN /\ nofirst =>
               (pc' = "blockend" /\ err' = -5 /\ UNCHANGED lengths)
          /\ overrun =>
               (pc' = "blockend" /\ err' = -6 /\ UNCHANGED lengths)
          /\ \A i \in (nlen + ndist + 1)..MAXCODES :
               lengths'[i] = lengths[i]]_vars

C17_Witness ==
  /\ pc = "blockend"
  /\ type = 2
  /\ err = -6
  /\ index = 256
  /\ nlen + ndist = 258

(* C18: when the lengths read for a dynamic block give symbol 256 the      *)
(* length 0, dynamic() returns -9 and the block produces no output; the    *)
(* test comes before the literal/length and distance tables are built, so  *)
(* -9 is returned also for lengths that would be rejected with -7 or -8.   *)
C18_MissingEndOfBlock ==
  [][/\ (pc = "dynlen" /\ index >= nlen + ndist /\ lengths[257] = 0) =>
          /\ pc' = "blockend"
          /\ err' = -9
          /\ UNCHANGED << incnt, bitbuf, bitcnt, lencode, distcode >>
     /\ pc \in {"dynamic", "dynlen"} =>
          UNCHANGED << out, outcnt, adler32_checksum >>]_vars

C18_Witness ==
  /\ pc = "blockend"
  /\ type = 2
  /\ err = -9
  /\ outcnt = 0
  /\ OverSubscribed(LitLenLengths)

(* C19: a length/distance pair whose distance exceeds the number of bytes  *)
(* output so far makes codes() return -11 without appending a byte, in the *)
(* same way with and without an output buffer (the test comes before the   *)
(* test for space); a pair whose distance does not exceed it is never      *)
(* answered with -11, and the copy it starts reads no offset before 0.     *)
C19_DistanceTooFar ==
  [][pc = "codes" =>
       LET d1 == decode(S, lencode)
           symbol == d1.sym - 257
           e1 == bits(d1, lext[symbol + 1])
           d2 == decode(e1, distcode)
           e2 == bits(d2, dext[d2.sym + 1])
           dist == dists[d2.sym + 1] + e2.val
       IN (/\ ~d1.jmp /\ d1.sym >= 257 /\ d1.sym <= 285
           /\ ~e1.jmp
           /\ ~d2.jmp /\ d2.sym >= 0
           /\ ~e2.jmp) =>
            IF dist > outcnt
            THEN /\ pc' = "blockend"
                 /\ err' = -11
                 /\ UNCHANGED << out, outcnt, adler32_checksum >>
            ELSE /\ ~(pc' = "blockend" /\ err' = -11)
                 /\ copy' # NoCopy =>
                      (copy'.dist = dist /\ outcnt - copy'.dist >= 0)]_vars

C19_Witness ==
  /\ pc = "blockend"
  /\ err = -11
  /\ dest = "BUF"
  /\ outcnt = 1
  /\ outcnt + 3 > outlen

(* C20: a stored block discards the bits left of the current byte and      *)
(* reads LEN and NLEN; when LEN + NLEN = 0xFFFF and LEN input bytes        *)
(* remain, it appends exactly the LEN raw bytes to the output, in order    *)
(* (without a buffer: counts them), and consumes exactly 4 + LEN input     *)
(* bytes; LEN = 0 is accepted and appends nothing.                         *)
C20_StoredCopiesLenBytes ==
  [][pc = "stored" =>
       /\ bitbuf' = 0 /\ bitcnt' = 0
       /\ incnt + 4 <= inlen =>
            LET LEN == source[incnt + 1] + 256 * source[incnt + 2]
                NLEN == source[incnt + 3] + 256 * source[incnt + 4]
            IN (LEN + NLEN = 65535 /\ incnt + 4 + LEN <= inlen) =>
                 /\ pc' = "blockend" /\ err' = 0
                 /\ incnt' = incnt + 4 + LEN
                 /\ outcnt' = outcnt + LEN
                 /\ dest = "BUF" =>
                      out' = out \o SubSeq(source, incnt + 5, incnt + 4 + LEN)
                 /\ trace'[Len(trace')].LEN = LEN
                 /\ trace'[Len(trace')].NLEN = NLEN]_vars

(* C20, amended: the same when, with an output buffer, at least LEN bytes  *)
(* of it are free.                                                         *)
C20_StoredCopiesLenBytesWithRoom ==
  [][pc = "stored" =>
       /\ bitbuf' = 0 /\ bitcnt' = 0
       /\ incnt + 4 <= inlen =>
            LET LEN == source[incnt + 1] + 256 * source[incnt + 2]
                NLEN == source[incnt + 3] + 256 * source[incnt + 4]
            IN (/\ LEN + NLEN = 65535 /\ incnt + 4 + LEN <= inlen
                /\ dest = "BUF" => outcnt + LEN <= outlen) =>
                 /\ pc' = "blockend" /\ err' = 0
                 /\ incnt' = incnt + 4 + LEN
                 /\ outcnt' = outcnt + LEN
                 /\ dest = "BUF" =>
                      out' = out \o SubSeq(source, incnt + 5, incnt + 4 + LEN)
                 /\ trace'[Len(trace')].LEN = LEN
                 /\ trace'[Len(trace')].NLEN = NLEN]_vars

C20_Witness ==
  /\ pc = "blockend"
  /\ type = 0
  /\ err = 0
  /\ dest = "BUF"
  /\ trace[Len(trace)].LEN = 2
  /\ out = << 65, 66 >>
  /\ incnt = 7

(* C21: bits(s, n), 0 <= n <= 16, returns the next n unread bits of the    *)
(* input as a number with the first bit read as bit 0, the low-order bit   *)
(* of each byte being read first, and moves the bit position on by n; it   *)
(* leaves by the end-of-input unwind exactly when fewer than n unread bits *)
(* remain.                                                                 *)
C21_BitsReturnsNextBits ==
  [][(caller = "bits" /\ pc = "bits") =>
       LET need == hpos'
           pos == get_input_bit_position(S)
       IN IF ShiftL(inlen, 3) - pos < need
            THEN hres'.jmp /\ pc' = "unwound"
            ELSE /\ ~hres'.jmp
                 /\ hres'.val = StreamBits(pos, need)
                 /\ get_input_bit_position(S)' = pos + need
                 /\ pc' = "bits"]_vars

C21_Witness ==
  /\ caller = "bits"
  /\ pc = "bits"
  /\ hpos = 13
  /\ get_input_bit_position(S) = 18
  /\ hres.val = StreamBits(5, 13)
  /\ hres.val > 255

(* C22: zlib_dump() returns -1 without calling the DEFLATE decoder exactly *)
(* when the compression method (low 4 bits of CMF) is not 8 or the         *)
(* compression info (high 4 bits) is not 7; a header with CMF * 256 + FLG  *)
(* not divisible by 31 is only recorded as "check failed", and the         *)
(* decoder is called all the same.                                         *)
C22_ZlibHeaderRejection ==
  [][(caller = "zlib_dump" /\ pc = "zheaded") =>
       IF (hpos \div 256) % 16 # 8 \/ (hpos \div 256) \div 16 # 7
       THEN /\ pc' = "exit"
            /\ ret' = -1
            /\ UNCHANGED << incnt, block_index, trace, out, outcnt >>
       ELSE /\ pc' = "block"
            /\ sourcelen' = inlen
            /\ hres.FCHECK_description =
                 IF hpos % 31 # 0 THEN "check failed" ELSE "check success"]_vars

C22_Witness ==
  /\ caller = "zlib_dump"
  /\ pc = "exit"
  /\ hpos = 120 * 256 + 157
  /\ hres.FCHECK_description = "check failed"
  /\ pass = 2
  /\ block_index = 3
  /\ ret = 0

(* C23: round trip.  puff() on a reference encoding of the data B, in      *)
(* stored, fixed or dynamic blocks, with a buffer of Len(B) bytes returns  *)
(* 0, has written exactly B, reports Len(B) bytes of output, and its       *)
(* Adler-32 is the Adler-32 of B.                                          *)
C23_RoundTrip ==
  pc = "returned" =>
    /\ ret = 0
    /\ out = hres.data
    /\ destlen = Len(hres.data)
    /\ adler32_checksum = Adler32Of(hres.data)

(* A returned round trip of data with a match, through a dynamic block.    *)
C23_Witness ==
  /\ pc = "returned"
  /\ Len(hres.data) >= 4
  /\ out = hres.data
  /\ \E i \in DOMAIN trace : trace[i].BTYPE = 2
  /\ \E i \in 1..Len(out) - 1 : out[i] # out[i + 1]

(* C24: for a frame without the Single Segment flag the window size the    *)
(* header parser reports is 2^window_log + (2^window_log / 8) * mantissa,  *)
(* window_log = 10 + exponent, mantissa the low 3 bits and exponent the    *)
(* high 5 bits of the Window Descriptor.                                   *)
(* w = k * 2^n, without computing the power.                               *)
RECURSIVE IsShifted(_, _, _)
IsShifted(w, k, n) ==
  IF n = 0 THEN w = k ELSE w % 2 = 0 /\ IsShifted(w \div 2, k, n - 1)

(* 2^window_log + (2^window_log / 8) * mantissa = (8 + mantissa) *         *)
(* 2^(window_log - 3).                                                     *)
C24_WindowSize ==
  pc = "zstdheaded" /\ hres.single_segment_flag = 0 =>
    LET mantissa == source[6] % 8
        window_log == 10 + source[6] \div 8
    IN /\ hres.mantissa = mantissa
       /\ hres.exponent = source[6] \div 8
       /\ IsShifted(hres.window_size, 8 + mantissa, window_log - 3)

(* C25: in the trace of the LZ4 frame walker the BLOCK_BIT_POSITION of a   *)
(* block record is the BLOCK_BIT_POSITION of the record before it plus its *)
(* BLOCK_BIT_SIZE, with the BlockChecksum flag clear or set.               *)
C25_Lz4RecordsChain ==
  caller = "lz4_dump" =>
    \A i \in 1..(Len(trace) - 1) :
      trace[i + 1].BLOCK_BIT_POSITION
        = trace[i].BLOCK_BIT_POSITION + trace[i].BLOCK_BIT_SIZE

(* C26: dynamic() decodes the code lengths into one vector of              *)
(* nlen + ndist slots.  A symbol 0..15 writes that length to one slot, 16  *)
(* writes the length before it 3 + (2 bits) times, 17 writes 3 + (3 bits)  *)
(* zeros and 18 writes 11 + (7 bits) zeros, the extra bits being the bits  *)
(* of the input after the symbol; a run may pass from the literal/length   *)
(* part to the distance part; no other slot changes.  When the tables are  *)
(* built every slot has been written, the literal/length table holds the   *)
(* symbols of the first nlen slots and the distance table those of the     *)
(* other ndist.                                                            *)
C26_LengthsInOneVector ==
  [][((pc = "dynlen" /\ index < nlen + ndist /\ pc' = "dynlen") =>
        LET d == decode(S, lencode)
            after == 8 * d.incnt - d.bitcnt
            run == IF d.sym < 16 THEN 1
                   ELSE IF d.sym = 16 THEN 3 + StreamBits(after, 2)
                   ELSE IF d.sym = 17 THEN 3 + StreamBits(after, 3)
                   ELSE 11 + StreamBits(after, 7)
            len == IF d.sym < 16 THEN d.sym
                   ELSE IF d.sym = 16 THEN lengths[index] ELSE 0
        IN /\ d.sym \in 0..18
           /\ index' = index + run
           /\ index' <= nlen + ndist
           /\ \A i \in 1..MAXCODES :
                lengths'[i] = IF i > index /\ i <= index + run THEN len
                              ELSE lengths[i])
     /\ ((pc = "dynlen" /\ pc' = "codes") =>
           /\ index = nlen + ndist
           /\ UNCHANGED lengths
           /\ \A l \in 1..MAXBITS :
                /\ lencode'.count[l + 1]
                     = Cardinality({i \in 1..nlen : lengths[i] = l})
                /\ distcode'.count[l + 1]
                     = Cardinality({i \in 1..ndist : lengths[nlen + i] = l})
           /\ {lencode'.symbol[j] : j \in DOMAIN lencode'.symbol}
                = {i - 1 : i \in {k \in 1..nlen : lengths[k] # 0}}
           /\ {distcode'.symbol[j] : j \in DOMAIN distcode'.symbol}
                = {i - 1 : i \in {k \in 1..ndist : lengths[nlen + k] # 0}})
    ]_vars

(* Lengths have been written and the next symbol is a 16 whose run starts  *)
(* in the literal/length part and ends in the distance part.               *)
C26_Witness ==
  /\ pc = "dynlen"
  /\ index > 0
  /\ index < nlen
  /\ LET d == decode(S, lencode)
         b == bits(d, IF d.sym = 16 THEN 2 ELSE IF d.sym = 17 THEN 3 ELSE 7)
         run == (IF d.sym = 18 THEN 11 ELSE 3) + b.val
     IN /\ ~d.jmp
        /\ d.sym = 16
        /\ ~b.jmp
        /\ index + run > nlen
        /\ index + run <= nlen + ndist

(* C27: the bit reader.  A step of puff() that is not the landing of       *)
(* longjmp() leaves bitcnt in 0..7; no step of one call of puff() moves    *)
(* the bit position 8 * incnt - bitcnt back or past 8 * inlen; and from    *)
(* every state a completed operation left, a bits() call that completes    *)
(* and a decode() call on a table in use that returns a symbol leave       *)
(* bitcnt in 0..7 and the position further on, by the bits asked for or by *)
(* at least one bit, and not past 8 * inlen.                               *)
C27_BitReader ==
  [][pass' = pass =>
       LET pos == 8 * incnt - bitcnt
           landing == pc # "blockend" /\ pc' = "finish"
       IN /\ 8 * incnt' - bitcnt' >= pos
          /\ 8 * incnt' - bitcnt' <= 8 * inlen
          /\ (~landing /\ <<incnt', bitbuf', bitcnt'>> # <<incnt, bitbuf, bitcnt>>)
               => bitcnt' \in 0..7
          /\ bitcnt \in 0..7 =>
               /\ \A need \in 0..16 :
                    LET b == bits(S, need)
                    IN ~b.jmp =>
                         /\ b.bitcnt \in 0..7
                         /\ 8 * b.incnt - b.bitcnt = pos + need
                         /\ pos + need <= 8 * inlen
               /\ \A h \in (IF pc = "codes" THEN {lencode, distcode}
                            ELSE IF pc = "dynlen" THEN {lencode} ELSE {}) :
                    LET d == decode(S, h)
                    IN (~d.jmp /\ d.sym >= 0) =>
                         /\ d.bitcnt \in 0..7
                         /\ 8 * d.incnt - d.bitcnt > pos
                         /\ 8 * d.incnt - d.bitcnt <= 8 * inlen
    ]_vars

(* stored() has dropped the bits left in the last byte read, and a later   *)
(* block has been read with bits() and decode().                           *)
C27_Witness ==
  /\ pc = "returned"
  /\ ret = 0
  /\ Len(trace) >= 2
  /\ trace[1].BTYPE = 0
  /\ trace[2].BTYPE # 0
  /\ bitcnt \in 1..7

(* C28: on every table construct() accepts and every state of the bit      *)
(* reader, decode() as compiled by default and decode() as compiled with   *)
(* SLOW leave by longjmp() on the same inputs, return the same value, a    *)
(* symbol or -10, and after a symbol leave the same incnt, bitbuf and      *)
(* bitcnt.                                                                 *)
C28_FastDecodeIsSlowDecode ==
  pc = "ddecode" =>
    LET f == decode(S, lencode)
        w == decode_slow(S, lencode)
    IN /\ f.jmp = w.jmp
       /\ ~f.jmp =>
            /\ f.sym = w.sym
            /\ f.sym >= 0 =>
                 <<f.incnt, f.bitbuf, f.bitcnt>> = <<w.incnt, w.bitbuf, w.bitcnt>>

(* A symbol whose code began in one byte and ended in the next has been    *)
(* decoded, and the call after it is about to run out of codes.            *)
C28_Witness ==
  /\ pc = "ddecode"
  /\ hres.sym >= 0
  /\ incnt >= 2
  /\ bitcnt > 0
  /\ decode(S, lencode).sym = -10
  /\ decode_slow(S, lencode).sym = -10

(***************************************************************************)
(* C29.  decode_gzip_header() returns the offset of the DEFLATE payload:   *)
(* 10, plus 2 + XLEN with FEXTRA, plus strlen + 1 for the name with FNAME  *)
(* and for the comment with FCOMMENT, whatever their lengths, plus 2 with  *)
(* FHCRC.  The code keeps strlen + 1 in an unsigned char, so the statement *)
(* fails for a name or a comment of 255 bytes or more.                     *)
(***************************************************************************)
GzipPayloadOffset(src) ==
  LET flags == src[4]
      after_extra == IF ShiftR(flags, 2) % 2 = 1
                       THEN 10 + 2 + src[11] + 256 * src[12] ELSE 10
      after_name == IF ShiftR(flags, 3) % 2 = 1
                      THEN after_extra + strlen(src, after_extra) + 1
                      ELSE after_extra
      after_comment == IF ShiftR(flags, 4) % 2 = 1
                         THEN after_name + strlen(src, after_name) + 1
                         ELSE after_name
  IN after_comment + (IF ShiftR(flags, 1) % 2 = 1 THEN 2 ELSE 0)

C29_GzipHeaderOffset ==
  (pc = "gzheaded" /\ hpos >= 0) => hpos = GzipPayloadOffset(source)

(***************************************************************************)
(* C30.  puff() terminates on every finite input.  Every iteration of the  *)
(* block loop, of the code-length loop of dynamic() and of the symbol loop *)
(* of codes() consumes at least one bit of input, ends its loop or leaves  *)
(* with an error; s.incnt never passes s.inlen, so that no byte is read at *)
(* an index >= *sourcelen; and under the fairness of sequential execution  *)
(* every call of puff() that has started returns, or the process stops at  *)
(* a store outside the output buffer.                                      *)
(***************************************************************************)
PuffRunning ==
  pc \in {"block", "stored", "fixed", "dynamic", "dynlen", "codes",
          "invalid", "blockend", "finish"}

PuffEnded == pc \in {"returned", "crashed"}

(* The program is sequential and keeps running: it stops only where it has *)
(* no next step, at exit, at a crash, or when a direct call of puff() has  *)
(* returned.  Next is enabled in exactly the other states, so Scheduling   *)
(* is WF_vars(Next) with ENABLED <<Next>>_vars written out as ~Halted.     *)
Halted ==
  pc \in {"exit", "crashed"} \/ (pc = "returned" /\ caller = "puff")

Scheduling == ([]<>Halted) \/ ([]<><<Next>>_vars)

SpecTermination == Spec /\ Scheduling

C30_LoopsConsume ==
  [][( (pc = "block")
         => (get_input_bit_position(S)' > get_input_bit_position(S)
             \/ (pc' = "finish" /\ err' = 2)) )
     /\ ( (pc = "blockend" /\ pc' = "block")
         => (get_input_bit_position(S)' > block_start_bit_position) )
     /\ ( (pc = "dynlen" /\ index < nlen + ndist)
         => (get_input_bit_position(S)' > get_input_bit_position(S)
             \/ pc' # "dynlen" \/ err' # 0) )
     /\ ( (pc = "codes")
         => (get_input_bit_position(S)' > get_input_bit_position(S)
             \/ pc' # "codes" \/ err' # 0) )]_vars

C30_Terminates ==
  /\ C30_LoopsConsume
  /\ [](incnt <= inlen)
  /\ (PuffRunning ~> PuffEnded)

C30_Witness ==
  /\ pc = "returned"
  /\ ret = 0
  /\ Len(trace) >= 3
  /\ \E i \in 1..Len(trace) : trace[i].BTYPE = 2
  /\ \E i \in 1..Len(trace) : trace[i].BTYPE = 1

====
